---------------------------- MODULE Spec2Model ----------------------------
(***************************************************************************)
(* Model of ChipConfigData, the legacy chip.json converter:                *)
(* load / save / getFabricIndices / verifyCertificateChain.                *)
(*                                                                         *)
(* Strings (keys, base64 values) are sequences of one-character strings,   *)
(* so that the key grammar, parseInt and number formatting are computed    *)
(* as the code computes them.  An optional value (T | undefined) is a      *)
(* sequence of length at most one: <<>> is undefined, <<x>> is x.          *)
(***************************************************************************)
EXTENDS Integers, Sequences, FiniteSets, TLC

VARIABLES disk, inst, loaded, ret, vpc, vctx, vres, vcalls, log, pending

vars == <<disk, inst, loaded, ret, vpc, vctx, vres, vcalls, log, pending>>

None == <<>>
Some(x) == <<x>>
IsSome(o) == Len(o) = 1
Val(o) == o[1]

-----------------------------------------------------------------------------
(* Characters and strings                                                  *)

DecDigits == <<"0", "1", "2", "3", "4", "5", "6", "7", "8", "9">>
HexLower == <<"a", "b", "c", "d", "e", "f">>
HexUpper == <<"A", "B", "C", "D", "E", "F">>

(* Position of c in seq, 0 when absent                                     *)
IndexOf(seq, c) == IF \E i \in 1..Len(seq) : seq[i] = c
                   THEN CHOOSE i \in 1..Len(seq) : seq[i] = c
                   ELSE 0

DecDigitValue == [c \in {DecDigits[i] : i \in 1..10} |-> IndexOf(DecDigits, c) - 1]

HexDigitValue ==
    [c \in {DecDigits[i] : i \in 1..10} \cup {HexLower[i] : i \in 1..6}
           \cup {HexUpper[i] : i \in 1..6} |->
        IF IndexOf(DecDigits, c) > 0 THEN IndexOf(DecDigits, c) - 1
        ELSE IF IndexOf(HexLower, c) > 0 THEN 9 + IndexOf(HexLower, c)
        ELSE 9 + IndexOf(HexUpper, c)]

IsDecDigit(c) == c \in DOMAIN DecDigitValue
IsHexDigit(c) == c \in DOMAIN HexDigitValue

startsWith(s, p) == Len(s) >= Len(p) /\ SubSeq(s, 1, Len(p)) = p

slice(s, n) == SubSeq(s, n + 1, Len(s))

(* Length of the longest prefix of s whose characters satisfy the test     *)
RECURSIVE HexRun(_)
HexRun(s) == IF s # <<>> /\ IsHexDigit(Head(s)) THEN 1 + HexRun(Tail(s)) ELSE 0

RECURSIVE DecRun(_)
DecRun(s) == IF s # <<>> /\ IsDecDigit(Head(s)) THEN 1 + DecRun(Tail(s)) ELSE 0

(* parseInt(s, 16) of a non-empty string of hex digits                     *)
RECURSIVE parseIntHex(_)
parseIntHex(s) == IF s = <<>> THEN 0
                  ELSE 16 * parseIntHex(SubSeq(s, 1, Len(s) - 1)) + HexDigitValue[s[Len(s)]]

RECURSIVE DecValue(_)
DecValue(s) == IF s = <<>> THEN 0
               ELSE 10 * DecValue(SubSeq(s, 1, Len(s) - 1)) + DecDigitValue[s[Len(s)]]

(* parseInt(s, 10): optional sign, then the longest run of decimal digits; *)
(* NaN (None) when there is no digit.  -0 is the Map key 0.                *)
parseIntDec(s) ==
    LET neg  == s # <<>> /\ Head(s) = "-"
        body == IF s # <<>> /\ Head(s) \in {"-", "+"} THEN Tail(s) ELSE s
        n    == DecRun(body)
    IN IF n = 0 THEN None
       ELSE Some((IF neg THEN -1 ELSE 1) * DecValue(SubSeq(body, 1, n)))

(* String(n) of a non-negative integer, as a template literal formats it   *)
RECURSIVE NatToString(_)
NatToString(n) == IF n < 10 THEN <<DecDigits[n + 1]>>
                  ELSE NatToString(n \div 10) \o <<DecDigits[(n % 10) + 1]>>

IntToString(n) == IF n < 0 THEN <<"-">> \o NatToString(-n) ELSE NatToString(n)

(* `${x}` of a number that may be NaN                                      *)
NumberToString(o) == IF IsSome(o) THEN IntToString(Val(o)) ELSE <<"N", "a", "N">>

-----------------------------------------------------------------------------
(* Buffer.from(base64, "base64")                                           *)

B64Alphabet ==
    <<"A", "B", "C", "D", "E", "F", "G", "H", "I", "J", "K", "L", "M",
      "N", "O", "P", "Q", "R", "S", "T", "U", "V", "W", "X", "Y", "Z",
      "a", "b", "c", "d", "e", "f", "g", "h", "i", "j", "k", "l", "m",
      "n", "o", "p", "q", "r", "s", "t", "u", "v", "w", "x", "y", "z",
      "0", "1", "2", "3", "4", "5", "6", "7", "8", "9", "+", "/">>

B64Value == [c \in {B64Alphabet[i] : i \in 1..64} |-> IndexOf(B64Alphabet, c) - 1]

(* The characters before the first padding character                       *)
B64Payload(s) ==
    LET pads == {i \in 1..Len(s) : s[i] = "="}
    IN IF pads = {} THEN s
       ELSE SubSeq(s, 1, (CHOOSE i \in pads : \A j \in pads : i <= j) - 1)

(* The three bytes of every full group of four characters, then the bytes  *)
(* of a last group of three or two characters                              *)
B64Bytes(s) ==
    LET groups == Len(s) \div 4
        last   == SubSeq(s, 4 * groups + 1, Len(s))
        n(g)   == B64Value[s[4 * g - 3]] * 262144 + B64Value[s[4 * g - 2]] * 4096
                  + B64Value[s[4 * g - 1]] * 64 + B64Value[s[4 * g]]
        full   == [i \in 1..(3 * groups) |->
                      LET v == n(((i - 1) \div 3) + 1)
                      IN IF (i - 1) % 3 = 0 THEN v \div 65536
                         ELSE IF (i - 1) % 3 = 1 THEN (v \div 256) % 256
                         ELSE v % 256]
    IN IF Len(last) = 3 THEN
           LET v == B64Value[last[1]] * 4096 + B64Value[last[2]] * 64 + B64Value[last[3]]
           IN full \o <<v \div 1024, (v \div 4) % 256>>
       ELSE IF Len(last) = 2 THEN
           full \o <<(B64Value[last[1]] * 64 + B64Value[last[2]]) \div 16>>
       ELSE full

decodeEntry(base64) == [raw |-> B64Bytes(B64Payload(base64)), base64 |-> base64]

-----------------------------------------------------------------------------
(* JavaScript Map: entries in insertion order; set() on an existing key    *)
(* replaces the value in place.  A Map is a sequence of <<key, value>>.    *)

MapKeys(m) == [i \in 1..Len(m) |-> m[i][1]]
MapHas(m, k) == \E i \in 1..Len(m) : m[i][1] = k
MapGet(m, k) == IF MapHas(m, k)
                THEN Some(m[CHOOSE i \in 1..Len(m) : m[i][1] = k][2])
                ELSE None
MapSet(m, k, v) == IF MapHas(m, k)
                   THEN [i \in 1..Len(m) |-> IF m[i][1] = k THEN <<k, v>> ELSE m[i]]
                   ELSE Append(m, <<k, v>>)

(* JavaScript object with string keys: own properties are enumerated with  *)
(* the array-index keys first, in ascending numeric order, then the other  *)
(* keys in insertion order.  An object is a sequence of <<key, value>> in  *)
(* enumeration order.                                                      *)
IsArrayIndex(k) == /\ k # <<>>
                   /\ DecRun(k) = Len(k)
                   /\ (Len(k) > 1 => k[1] # "0")
                   /\ Len(k) <= 9

ObjSet(o, k, v) ==
    IF MapHas(o, k) THEN [i \in 1..Len(o) |-> IF o[i][1] = k THEN <<k, v>> ELSE o[i]]
    ELSE IF IsArrayIndex(k) THEN
        LET before == SelectSeq(o, LAMBDA e : IsArrayIndex(e[1]) /\ DecValue(e[1]) < DecValue(k))
            after  == SelectSeq(o, LAMBDA e : ~(IsArrayIndex(e[1]) /\ DecValue(e[1]) < DecValue(k)))
        IN before \o <<<<k, v>>>> \o after
    ELSE Append(o, <<k, v>>)

(* JSON.parse of the members of an object, in the order of the text        *)
RECURSIVE ObjFromMembers(_)
ObjFromMembers(ms) == IF ms = <<>> THEN <<>>
                      ELSE LET last == ms[Len(ms)]
                           IN ObjSet(ObjFromMembers(SubSeq(ms, 1, Len(ms) - 1)), last[1], last[2])

-----------------------------------------------------------------------------
(* Binary record codec (TlvSchemas): strict decode-or-fail over the bytes. *)
(* The records are Matter TLV structures; the layouts below are the ones   *)
(* of the repository's test vectors (one-byte tags, fixed integer widths). *)
(* A decoder returns None where the code's decode() throws.                *)

(* 15 | 24 01 <fabricIndex> | 24 02 <peerNodeId> | 18                      *)
TlvSessionResumptionEntry(raw) ==
    IF Len(raw) = 8 /\ raw[1] = 21 /\ raw[2] = 36 /\ raw[3] = 1
       /\ raw[5] = 36 /\ raw[6] = 2 /\ raw[8] = 24
    THEN Some([fabricIndex |-> raw[4], peerNodeId |-> raw[7]])
    ELSE None

(* 16 | SessionResumptionEntry* | 18                                       *)
RECURSIVE TlvEntryList(_)
TlvEntryList(raw) ==
    IF raw = <<>> THEN Some(<<>>)
    ELSE IF Len(raw) < 8 THEN None
    ELSE LET e    == TlvSessionResumptionEntry(SubSeq(raw, 1, 8))
             rest == TlvEntryList(SubSeq(raw, 9, Len(raw)))
         IN IF IsSome(e) /\ IsSome(rest) THEN Some(<<Val(e)>> \o Val(rest)) ELSE None

TlvSessionResumptionIndex(raw) ==
    IF Len(raw) >= 2 /\ raw[1] = 22 /\ raw[Len(raw)] = 24
    THEN TlvEntryList(SubSeq(raw, 2, Len(raw) - 1))
    ELSE None

(* 15 | 25 00 <vendorId lo hi> | 2C 01 <len> <label bytes> | 18            *)
TlvFabricMetadata(raw) ==
    IF Len(raw) >= 9 /\ raw[1] = 21 /\ raw[2] = 37 /\ raw[3] = 0
       /\ raw[6] = 44 /\ raw[7] = 1 /\ Len(raw) = 9 + raw[8] /\ raw[Len(raw)] = 24
    THEN Some([vendorId |-> raw[4] + 256 * raw[5], label |-> SubSeq(raw, 9, Len(raw) - 1)])
    ELSE None

(* 15 | 26 00 <epochSeconds, 4 bytes little endian> | 18                   *)
TlvLastKnownGoodTime(raw) ==
    IF Len(raw) = 8 /\ raw[1] = 21 /\ raw[2] = 38 /\ raw[3] = 0 /\ raw[8] = 24
    THEN Some([epochSeconds |-> raw[4] + 256 * raw[5] + 65536 * raw[6] + 16777216 * raw[7]])
    ELSE None

(* 15 | 24 00 <nextFabricIndex> | 36 01 (04 <index>)* 18 | 18              *)
RECURSIVE TlvUint8Array(_)
TlvUint8Array(raw) ==
    IF raw = <<>> THEN Some(<<>>)
    ELSE IF Len(raw) < 2 \/ raw[1] # 4 THEN None
    ELSE LET rest == TlvUint8Array(SubSeq(raw, 3, Len(raw)))
         IN IF IsSome(rest) THEN Some(<<raw[2]>> \o Val(rest)) ELSE None

TlvFabricIndexList(raw) ==
    IF Len(raw) >= 8 /\ raw[1] = 21 /\ raw[2] = 36 /\ raw[3] = 0 /\ raw[5] = 54 /\ raw[6] = 1
       /\ raw[Len(raw) - 1] = 24 /\ raw[Len(raw)] = 24
    THEN LET xs == TlvUint8Array(SubSeq(raw, 7, Len(raw) - 2))
         IN IF IsSome(xs) THEN Some([nextFabricIndex |-> raw[4], fabricIndices |-> Val(xs)])
            ELSE None
    ELSE None

(* key entry: 15 | 24 04 <x> | 25 05 <lo hi> | 30 06 <len> <key bytes> | 18 *)
RECURSIVE TlvGroupKeyEntries(_)
TlvGroupKeyEntries(raw) ==
    IF raw = <<>> THEN Some(<<>>)
    ELSE IF Len(raw) >= 12 /\ raw[1] = 21 /\ raw[2] = 36 /\ raw[3] = 4 /\ raw[5] = 37
            /\ raw[6] = 5 /\ raw[9] = 48 /\ raw[10] = 6 /\ Len(raw) >= 12 + raw[11]
            /\ raw[12 + raw[11]] = 24
    THEN LET rest == TlvGroupKeyEntries(SubSeq(raw, 13 + raw[11], Len(raw)))
         IN IF IsSome(rest)
            THEN Some(<<[startTime |-> raw[4], hash |-> raw[7] + 256 * raw[8],
                         key |-> SubSeq(raw, 12, 11 + raw[11])]>> \o Val(rest))
            ELSE None
    ELSE None

(* 15 | 24 01 <policy> | 24 02 <keyCount> | 36 03 entry* 18                *)
(*    | 25 07 <groupKeySetId lo hi> | 18                                   *)
TlvGroupKeySet(raw) ==
    IF Len(raw) >= 15 /\ raw[1] = 21 /\ raw[2] = 36 /\ raw[3] = 1 /\ raw[5] = 36 /\ raw[6] = 2
       /\ raw[8] = 54 /\ raw[9] = 3 /\ raw[Len(raw) - 5] = 24 /\ raw[Len(raw) - 4] = 37
       /\ raw[Len(raw) - 3] = 7 /\ raw[Len(raw)] = 24
    THEN LET ks == TlvGroupKeyEntries(SubSeq(raw, 10, Len(raw) - 6))
         IN IF IsSome(ks)
            THEN Some([policy |-> raw[4], keyCount |-> raw[7], keys |-> Val(ks),
                       groupKeySetId |-> raw[Len(raw) - 2] + 256 * raw[Len(raw) - 1]])
            ELSE None
    ELSE None

(* 15 | 30 03 10 <16 bytes> | 30 04 20 <32 bytes> | 30 05 0C <12 bytes> | 18 *)
TlvSessionResumptionDetails(raw) ==
    IF Len(raw) = 71 /\ raw[1] = 21 /\ raw[2] = 48 /\ raw[3] = 3 /\ raw[4] = 16
       /\ raw[21] = 48 /\ raw[22] = 4 /\ raw[23] = 32
       /\ raw[56] = 48 /\ raw[57] = 5 /\ raw[58] = 12 /\ raw[71] = 24
    THEN Some([resumptionId |-> SubSeq(raw, 5, 20), sharedSecret |-> SubSeq(raw, 24, 55),
               cat |-> SubSeq(raw, 59, 70)])
    ELSE None

-----------------------------------------------------------------------------
(* Certificate library (external collaborator).  A certificate is the TLV  *)
(* structure 15 <kind> <subject id> <issuer id> 18, kind 1 = RCAC,         *)
(* 2 = ICAC, 3 = NOC; fromTlv throws (None) on anything else.  verify      *)
(* succeeds when the certificate was issued by the given issuer.           *)

KindRcac == 1
KindIcac == 2
KindNoc == 3

CertFromTlv(kind, raw) ==
    IF Len(raw) = 5 /\ raw[1] = 21 /\ raw[2] = kind /\ raw[5] = 24
    THEN Some([kind |-> kind, subject |-> raw[3], issuer |-> raw[4]])
    ELSE None

RcacVerify(rcac) == rcac.issuer = rcac.subject

IcacVerify(icac, rcac) == icac.issuer = rcac.subject

(* icac is optional: without it the NOC must be issued by the root         *)
NocVerify(noc, rcac, icac) ==
    IF IsSome(icac) THEN noc.issuer = Val(icac).subject ELSE noc.issuer = rcac.subject

(* cert.subject: the attributes of the subject's distinguished name, each  *)
(* optional.  A NOC's subject id carries its nodeId in the low four bits   *)
(* and its fabricId in the high four bits, an RCAC's subject id is its     *)
(* rcacId; 0 stands for an attribute the subject does not have.            *)
CertSubject(cert) ==
    LET low  == cert.subject % 16
        high == cert.subject \div 16
    IN [nodeId   |-> IF cert.kind = KindNoc /\ low # 0 THEN Some(low) ELSE None,
        fabricId |-> IF cert.kind = KindNoc /\ high # 0 THEN Some(high) ELSE None,
        rcacId   |-> IF cert.kind = KindRcac /\ cert.subject # 0 THEN Some(cert.subject)
                     ELSE None]

(* cert.ellipticCurvePublicKey: an uncompressed point named by the subject *)
CertPublicKey(cert) == <<4, cert.subject>>

-----------------------------------------------------------------------------
(* The in-memory model of one ChipConfigData instance                      *)

EmptyModel ==
    [fabrics    |-> <<>>,
     sessions   |-> [resumptionIndex |-> None, resumptionIndexDecoded |-> None],
     globals    |-> [fabricIndexList |-> None, fabricIndexListDecoded |-> None,
                     lastKnownGoodTime |-> None, lastKnownGoodTimeDecoded |-> None],
     ignored    |-> <<>>,
     generic    |-> <<>>,
     replConfig |-> <<>>]

IGNORED_KEY_PATTERNS ==
    { <<"g", "/", "f", "s", "/", "c">>, <<"g", "/", "f", "s", "/", "n">>,
      <<"g", "/", "g", "d", "c">>, <<"g", "/", "g", "c", "c">>,
      <<"g", "/", "g", "f", "l">>, <<"g", "/", "i", "c", "d", "f", "l">> }

(* Mutant: no key is taken for an ignored key                              *)
isIgnoredKey_Never(key) == FALSE

isIgnoredKey(key) == key \in IGNORED_KEY_PATTERNS

NewFabric(index) ==
    [index |-> index, noc |-> None, icac |-> None, rcac |-> None,
     metadata |-> None, metadataDecoded |-> None,
     keys |-> <<>>, keysDecoded |-> <<>>,
     sessions |-> <<>>, sessionsDecoded |-> <<>>,
     resumptions |-> <<>>, resumptionsDecoded |-> <<>>,
     other |-> <<>>]

(* The fabrics map after getOrCreateFabric(index)                          *)
getOrCreateFabric(fabrics, index) ==
    IF MapHas(fabrics, index) THEN fabrics ELSE MapSet(fabrics, index, NewFabric(index))

(* map.set(k, decoded) inside try: skipped when decode throws              *)
SetIfDecoded(map, k, decoded) == IF IsSome(decoded) THEN MapSet(map, k, Val(decoded)) ELSE map

(* field = decode(raw) inside try: the field keeps its value when decode throws *)
AssignIfDecoded(old, decoded) == IF IsSome(decoded) THEN decoded ELSE old

(* key.match(/^f\/([0-9a-fA-F]+)\/(.+)$/): None, or <<match[1], match[2]>> *)
FabricKeyMatch(key) ==
    IF ~startsWith(key, <<"f", "/">>) THEN None
    ELSE LET rest == slice(key, 2)
             n    == HexRun(rest)
         IN IF n >= 1 /\ Len(rest) >= n + 2 /\ rest[n + 1] = "/"
            THEN Some(<<SubSeq(rest, 1, n), slice(rest, n + 1)>>)
            ELSE None

(* Mutant: the sub-keys i and r are routed to each other's field           *)
FabricSubKeyUpdate_IcacAsRcac(fabric, subKey, entry) ==
    IF subKey = <<"n">> THEN [fabric EXCEPT !.noc = Some(entry)]
    ELSE IF subKey = <<"i">> THEN [fabric EXCEPT !.rcac = Some(entry)]
    ELSE IF subKey = <<"r">> THEN [fabric EXCEPT !.icac = Some(entry)]
    ELSE IF subKey = <<"m">> THEN
        [fabric EXCEPT !.metadata = Some(entry),
                       !.metadataDecoded = AssignIfDecoded(@, TlvFabricMetadata(entry.raw))]
    ELSE IF startsWith(subKey, <<"k", "/">>) THEN
        LET keyIndex == parseIntDec(slice(subKey, 2))
        IN [fabric EXCEPT !.keys = MapSet(@, keyIndex, entry),
                          !.keysDecoded = SetIfDecoded(@, keyIndex, TlvGroupKeySet(entry.raw))]
    ELSE IF startsWith(subKey, <<"s", "/">>) THEN
        LET nodeHex == slice(subKey, 2)
        IN [fabric EXCEPT !.sessions = MapSet(@, nodeHex, entry),
                          !.sessionsDecoded =
                              SetIfDecoded(@, nodeHex, TlvSessionResumptionDetails(entry.raw))]
    ELSE [fabric EXCEPT !.other = MapSet(@, subKey, entry)]

FabricSubKeyUpdate(fabric, subKey, entry) ==
    IF subKey = <<"n">> THEN [fabric EXCEPT !.noc = Some(entry)]
    ELSE IF subKey = <<"i">> THEN [fabric EXCEPT !.icac = Some(entry)]
    ELSE IF subKey = <<"r">> THEN [fabric EXCEPT !.rcac = Some(entry)]
    ELSE IF subKey = <<"m">> THEN
        [fabric EXCEPT !.metadata = Some(entry),
                       !.metadataDecoded = AssignIfDecoded(@, TlvFabricMetadata(entry.raw))]
    ELSE IF startsWith(subKey, <<"k", "/">>) THEN
        LET keyIndex == parseIntDec(slice(subKey, 2))
        IN [fabric EXCEPT !.keys = MapSet(@, keyIndex, entry),
                          !.keysDecoded = SetIfDecoded(@, keyIndex, TlvGroupKeySet(entry.raw))]
    ELSE IF startsWith(subKey, <<"s", "/">>) THEN
        LET nodeHex == slice(subKey, 2)
        IN [fabric EXCEPT !.sessions = MapSet(@, nodeHex, entry),
                          !.sessionsDecoded =
                              SetIfDecoded(@, nodeHex, TlvSessionResumptionDetails(entry.raw))]
    ELSE [fabric EXCEPT !.other = MapSet(@, subKey, entry)]

parseFabricKey(m, key, value) ==
    LET match == FabricKeyMatch(key)
    IN IF ~IsSome(match) THEN m
       ELSE LET fabricIndex == parseIntHex(Val(match)[1])
                subKey      == Val(match)[2]
                fabrics     == getOrCreateFabric(m.fabrics, fabricIndex)
                fabric      == Val(MapGet(fabrics, fabricIndex))
                entry       == decodeEntry(value)
            IN [m EXCEPT !.fabrics =
                    MapSet(fabrics, fabricIndex, FabricSubKeyUpdate(fabric, subKey, entry))]

(* Mutant: ownership taken from the wrong field of the payload            *)
ResumptionOwner_ByPeer(decoded) == decoded.peerNodeId

(* The fabric a decoded g/s/<resumptionId> entry is filed under            *)
ResumptionOwner(decoded) == decoded.fabricIndex

(* Mutant: the undecodable entry is swallowed together with the error      *)
StoreUnattributed_Dropped(m, key, value) == m

(* The catch branch of g/s/<resumptionId>: the fabric cannot be determined *)
StoreUnattributed(m, key, value) == [m EXCEPT !.generic = MapSet(@, key, value)]

(* Mutant: the raw entry is filed without its decoded form                 *)
FileResumption_RawOnly(fabric, resumptionId, entry, decoded) ==
    [fabric EXCEPT !.resumptions = MapSet(@, resumptionId, entry)]

(* The owning fabric after a decoded g/s/<resumptionId> entry is filed     *)
FileResumption(fabric, resumptionId, entry, decoded) ==
    [fabric EXCEPT !.resumptions = MapSet(@, resumptionId, entry),
                   !.resumptionsDecoded = MapSet(@, resumptionId, decoded)]

parseGlobalKey(m, key, value) ==
    LET entry == decodeEntry(value)
    IN IF key = <<"g", "/", "f", "i", "d", "x">> THEN
           [m EXCEPT !.globals.fabricIndexList = Some(entry),
                     !.globals.fabricIndexListDecoded =
                         AssignIfDecoded(@, TlvFabricIndexList(entry.raw))]
       ELSE IF key = <<"g", "/", "l", "k", "g", "t">> THEN
           [m EXCEPT !.globals.lastKnownGoodTime = Some(entry),
                     !.globals.lastKnownGoodTimeDecoded =
                         AssignIfDecoded(@, TlvLastKnownGoodTime(entry.raw))]
       ELSE IF key = <<"g", "/", "s", "r", "i">> THEN
           [m EXCEPT !.sessions.resumptionIndex = Some(entry),
                     !.sessions.resumptionIndexDecoded =
                         AssignIfDecoded(@, TlvSessionResumptionIndex(entry.raw))]
       ELSE IF startsWith(key, <<"g", "/", "s", "/">>) THEN
           LET resumptionId == slice(key, 4)
               decoded      == TlvSessionResumptionEntry(entry.raw)
           IN IF IsSome(decoded) THEN
                  LET owner   == ResumptionOwner(Val(decoded))
                      fabrics == getOrCreateFabric(m.fabrics, owner)
                      fabric  == Val(MapGet(fabrics, owner))
                  IN [m EXCEPT !.fabrics =
                          MapSet(fabrics, owner,
                                 FileResumption(fabric, resumptionId, entry, Val(decoded)))]
              ELSE StoreUnattributed(m, key, value)
       ELSE m

(* Mutant: a classified key is filed in the generic map as well           *)
ClassifyEntry_AlsoGeneric(m, key, value) ==
    LET n == IF isIgnoredKey(key) THEN [m EXCEPT !.ignored = MapSet(@, key, value)]
             ELSE IF startsWith(key, <<"f", "/">>) THEN parseFabricKey(m, key, value)
             ELSE IF startsWith(key, <<"g", "/">>) THEN parseGlobalKey(m, key, value)
             ELSE m
    IN [n EXCEPT !.generic = MapSet(@, key, value)]

(* One iteration of load's loop over Object.entries(sdkConfig)             *)
ClassifyEntry(m, key, value) ==
    IF isIgnoredKey(key) THEN [m EXCEPT !.ignored = MapSet(@, key, value)]
    ELSE IF startsWith(key, <<"f", "/">>) THEN parseFabricKey(m, key, value)
    ELSE IF startsWith(key, <<"g", "/">>) THEN parseGlobalKey(m, key, value)
    ELSE [m EXCEPT !.generic = MapSet(@, key, value)]

RECURSIVE ClassifyAll(_, _)
ClassifyAll(m, entries) ==
    IF entries = <<>> THEN m
    ELSE ClassifyAll(ClassifyEntry(m, Head(entries)[1], Head(entries)[2]), Tail(entries))

(* Mutant: the generic map is left out of the clearing                     *)
ClearModel_KeepsGeneric(m) ==
    [m EXCEPT !.fabrics = <<>>,
              !.sessions.resumptionIndex = None,
              !.sessions.resumptionIndexDecoded = None,
              !.globals.fabricIndexList = None,
              !.globals.fabricIndexListDecoded = None,
              !.globals.lastKnownGoodTime = None,
              !.globals.lastKnownGoodTimeDecoded = None,
              !.ignored = <<>>]

(* "Clear existing data": what load() resets of the model it finds         *)
ClearModel(m) ==
    [m EXCEPT !.fabrics = <<>>,
              !.sessions.resumptionIndex = None,
              !.sessions.resumptionIndexDecoded = None,
              !.globals.fabricIndexList = None,
              !.globals.fabricIndexListDecoded = None,
              !.globals.lastKnownGoodTime = None,
              !.globals.lastKnownGoodTimeDecoded = None,
              !.ignored = <<>>,
              !.generic = <<>>]

(* A file on disk is [sdk, repl]: the members of "sdk-config" in the order *)
(* of the text, and the optional "repl-config" object.  The model after    *)
(* load() of that file into an instance holding m: the maps and fields are *)
(* cleared, repl-config is replaced, and the entries are classified.       *)
LoadInto(m, file) ==
    ClassifyAll([ClearModel(m) EXCEPT
                    !.replConfig = IF IsSome(file.repl) THEN Val(file.repl) ELSE <<>>],
                ObjFromMembers(file.sdk))

(* The model of a fresh instance after load() of the file                  *)
LoadModel(file) == LoadInto(EmptyModel, file)

-----------------------------------------------------------------------------
(* save(): the sdk-config object, built by assignment in the code's order  *)

RECURSIVE ObjSetAll(_, _, _)
ObjSetAll(o, prefix, entries) ==
    IF entries = <<>> THEN o
    ELSE ObjSetAll(ObjSet(o, prefix \o Head(entries)[1], Head(entries)[2]), prefix, Tail(entries))

(* A Map of DecodedEntry as <<key string, base64>> pairs                   *)
Base64Of(map) == [i \in 1..Len(map) |-> <<map[i][1], map[i][2].base64>>]

KeysBase64Of(map) == [i \in 1..Len(map) |-> <<NumberToString(map[i][1]), map[i][2].base64>>]

OptBase64(field, name) == IF IsSome(field) THEN <<<<name, Val(field).base64>>>> ELSE <<>>

(* Mutant: every fabric is written under the prefix of fabric 1            *)
FabricPrefix_Fixed(fabricIndex) == <<"f", "/", "1">>

FabricPrefix(fabricIndex) == <<"f", "/">> \o IntToString(fabricIndex)

(* Mutant: the sessions are written before the certificates               *)
SaveFabric_SessionsFirst(o, fabricIndex, fabric) ==
    LET prefix == FabricPrefix(fabricIndex)
        o1 == ObjSetAll(o, prefix \o <<"/", "s", "/">>, Base64Of(fabric.sessions))
        o2 == ObjSetAll(o1, prefix,
                        OptBase64(fabric.noc, <<"/", "n">>) \o OptBase64(fabric.icac, <<"/", "i">>)
                        \o OptBase64(fabric.rcac, <<"/", "r">>)
                        \o OptBase64(fabric.metadata, <<"/", "m">>))
        o3 == ObjSetAll(o2, prefix \o <<"/", "k", "/">>, KeysBase64Of(fabric.keys))
        o4 == ObjSetAll(o3, <<"g", "/", "s", "/">>, Base64Of(fabric.resumptions))
    IN ObjSetAll(o4, prefix \o <<"/">>, Base64Of(fabric.other))

SaveFabric(o, fabricIndex, fabric) ==
    LET prefix == FabricPrefix(fabricIndex)
        o1 == ObjSetAll(o, prefix,
                        OptBase64(fabric.noc, <<"/", "n">>) \o OptBase64(fabric.icac, <<"/", "i">>)
                        \o OptBase64(fabric.rcac, <<"/", "r">>)
                        \o OptBase64(fabric.metadata, <<"/", "m">>))
        o2 == ObjSetAll(o1, prefix \o <<"/", "k", "/">>, KeysBase64Of(fabric.keys))
        o3 == ObjSetAll(o2, prefix \o <<"/", "s", "/">>, Base64Of(fabric.sessions))
        o4 == ObjSetAll(o3, <<"g", "/", "s", "/">>, Base64Of(fabric.resumptions))
    IN ObjSetAll(o4, prefix \o <<"/">>, Base64Of(fabric.other))

RECURSIVE SaveFabrics(_, _)
SaveFabrics(o, fabrics) ==
    IF fabrics = <<>> THEN o
    ELSE SaveFabrics(SaveFabric(o, Head(fabrics)[1], Head(fabrics)[2]), Tail(fabrics))

SaveSdkConfig(m) ==
    LET g == ObjSetAll(<<>>, <<>>,
                       OptBase64(m.globals.fabricIndexList, <<"g", "/", "f", "i", "d", "x">>)
                       \o OptBase64(m.globals.lastKnownGoodTime, <<"g", "/", "l", "k", "g", "t">>)
                       \o OptBase64(m.sessions.resumptionIndex, <<"g", "/", "s", "r", "i">>))
        f == SaveFabrics(g, m.fabrics)
    IN ObjSetAll(ObjSetAll(f, <<>>, m.ignored), <<>>, m.generic)

(* Mutant: "repl-config" is written even when it has no keys              *)
SaveFile_AlwaysRepl(m) == [sdk |-> SaveSdkConfig(m), repl |-> Some(m.replConfig)]

(* The file written by save(): "repl-config" only when it has keys         *)
SaveFile(m) ==
    [sdk  |-> SaveSdkConfig(m),
     repl |-> IF Len(m.replConfig) > 0 THEN Some(m.replConfig) ELSE None]

(* getFabricIndices(): Array.from(fabrics.keys()).sort((a, b) => a - b)    *)
RECURSIVE SortAscending(_)
SortAscending(xs) ==
    IF xs = <<>> THEN <<>>
    ELSE LET i == CHOOSE i \in 1..Len(xs) : \A j \in 1..Len(xs) : xs[i] <= xs[j]
         IN <<xs[i]>> \o SortAscending(SubSeq(xs, 1, i - 1) \o SubSeq(xs, i + 1, Len(xs)))

(* Mutant: the keys in Map insertion order, the sort forgotten             *)
getFabricIndices_Unsorted(m) == MapKeys(m.fabrics)

getFabricIndices(m) == SortAscending(MapKeys(m.fabrics))

-----------------------------------------------------------------------------
(* Input files.  Keys and base64 values are those of the repository's      *)
(* tests, plus keys that exercise every branch of the key grammar.         *)

K_f1n == <<"f", "/", "1", "/", "n">>
K_f1i == <<"f", "/", "1", "/", "i">>
K_f1r == <<"f", "/", "1", "/", "r">>
K_f1m == <<"f", "/", "1", "/", "m">>
K_f01m == <<"f", "/", "0", "1", "/", "m">>
K_f1k0 == <<"f", "/", "1", "/", "k", "/", "0">>
K_f1k00 == <<"f", "/", "1", "/", "k", "/", "0", "0">>
K_f1kx == <<"f", "/", "1", "/", "k", "/", "x">>
K_f1s70 == <<"f", "/", "1", "/", "s", "/", "7", "0">>
K_f1x == <<"f", "/", "1", "/", "x">>
K_f1k == <<"f", "/", "1", "/", "k">>
K_fAx == <<"f", "/", "A", "/", "x">>
K_fAn == <<"f", "/", "A", "/", "n">>
K_fAm == <<"f", "/", "A", "/", "m">>
K_f10n == <<"f", "/", "1", "0", "/", "n">>
K_f2n == <<"f", "/", "2", "/", "n">>
K_f2r == <<"f", "/", "2", "/", "r">>
K_f3n == <<"f", "/", "3", "/", "n">>
K_fzn == <<"f", "/", "z", "/", "n">>
K_gfidx == <<"g", "/", "f", "i", "d", "x">>
K_glkgt == <<"g", "/", "l", "k", "g", "t">>
K_gsri == <<"g", "/", "s", "r", "i">>
K_gsr1 == <<"g", "/", "s", "/", "r", "1">>
K_gsr2 == <<"g", "/", "s", "/", "r", "2">>
K_ggdc == <<"g", "/", "g", "d", "c">>
K_gfsn == <<"g", "/", "f", "s", "/", "n">>
K_gzz == <<"g", "/", "z", "z">>
K_Example == <<"E", "x", "a", "m", "p", "l", "e">>
K_7 == <<"7">>

V_invalid == <<"a", "W", "5", "2", "Y", "W", "x", "p", "Z", "A", "=", "=">>
V_sre1 == <<"F", "S", "Q", "B", "A", "S", "Q", "C", "c", "B", "g", "=">>
V_sre10 == <<"F", "S", "Q", "B", "C", "i", "Q", "C", "c", "B", "g", "=">>
V_meta == <<"F", "S", "U", "A", "S", "x", "M", "s", "A", "Q", "A", "Y">>
V_lkgt == <<"F", "S", "Y", "A", "g", "K", "i", "8", "L", "B", "g", "=">>
V_fidx == <<"F", "S", "Q", "A", "A", "j", "Y", "B", "B", "A", "E", "Y", "G", "A", "=", "=">>
V_sri == <<"F", "h", "U", "k", "A", "Q", "E", "k", "A", "n", "A", "Y", "G", "A", "=", "=">>
V_rcacGood == <<"F", "Q", "E", "B", "A", "R", "g", "=">>
V_rcacBad == <<"F", "Q", "E", "B", "A", "h", "g", "=">>
V_icacGood == <<"F", "Q", "I", "D", "A", "R", "g", "=">>
V_icacBad == <<"F", "Q", "I", "D", "A", "h", "g", "=">>
V_nocViaIcac == <<"F", "Q", "M", "E", "A", "x", "g", "=">>
V_nocViaRoot == <<"F", "Q", "M", "E", "A", "R", "g", "=">>
V_test == <<"d", "G", "V", "z", "d", "A", "=", "=">>

(* session resumption details of the test "should decode session           *)
(* resumption details TLV"                                                 *)
V_session ==
    <<"F", "T", "A", "D", "E", "K", "Z", "7", "9", "K", "2", "d", "s", "a",
      "z", "h", "X", "j", "3", "u", "Q", "2", "3", "3", "G", "N", "Y", "w",
      "B", "C", "A", "J", "G", "2", "L", "y", "b", "2", "Y", "q", "H", "G",
      "O", "0", "u", "n", "k", "R", "C", "D", "1", "C", "A", "v", "Z", "w",
      "R", "b", "L", "O", "u", "k", "M", "Y", "v", "R", "M", "A", "2", "a",
      "/", "k", "Z", "z", "A", "F", "D", "A", "A", "A", "A", "A", "A", "A",
      "A", "A", "A", "A", "A", "A", "A", "A", "A", "B", "g", "=">>

(* Values of the fabric configuration scenarios                           *)
(* key set 0 with one entry, a 16-byte key *)
V_ksIpk ==
    <<"F", "S", "Q", "B", "A", "C", "Q", "C", "A", "T", "Y", "D", "F", "S",
      "Q", "E", "A", "C", "U", "F", "L", "S", "g", "w", "B", "h", "D", "z",
      "c", "7", "J", "r", "6", "S", "c", "5", "8", "Q", "x", "R", "E", "C",
      "t", "g", "Z", "O", "C", "e", "G", "B", "g", "l", "B", "w", "A", "A",
      "G", "A", "=", "=">>
(* key set 0 with a 2-byte key followed by a 16-byte key *)
V_ksShortIpk ==
    <<"F", "S", "Q", "B", "A", "C", "Q", "C", "A", "j", "Y", "D", "F", "S",
      "Q", "E", "A", "C", "U", "F", "L", "S", "g", "w", "B", "g", "K", "r",
      "z", "R", "g", "V", "J", "A", "Q", "A", "J", "Q", "U", "t", "K", "D",
      "A", "G", "E", "P", "N", "z", "s", "m", "v", "p", "J", "z", "n", "x",
      "D", "F", "E", "Q", "K", "2", "B", "k", "4", "J", "4", "Y", "G", "C",
      "U", "H", "A", "A", "A", "Y">>
(* key set 0 with one entry, a 2-byte key *)
V_ksShort ==
    <<"F", "S", "Q", "B", "A", "C", "Q", "C", "A", "T", "Y", "D", "F", "S",
      "Q", "E", "A", "C", "U", "F", "L", "S", "g", "w", "B", "g", "K", "r",
      "z", "R", "g", "Y", "J", "Q", "c", "A", "A", "B", "g", "=">>
(* key set 0 without entries *)
V_ksEmpty ==
    <<"F", "S", "Q", "B", "A", "C", "Q", "C", "A", "D", "Y", "D", "G", "C",
      "U", "H", "A", "A", "A", "Y">>
(* NOC of node 4 in fabric 1, issued by the RCAC *)
V_nocFull ==
    <<"F", "Q", "M", "U", "A", "R", "g", "=">>
(* NOC whose subject has a fabricId and no nodeId *)
V_nocNoNodeId ==
    <<"F", "Q", "M", "Q", "A", "R", "g", "=">>
(* self-issued RCAC whose subject has no rcacId *)
V_rcacNoId ==
    <<"F", "Q", "E", "A", "A", "B", "g", "=">>

(* At most this many members in an input file's "sdk-config"               *)
MaxEntries == 2

(* At most this many members in the input file of a certificate scenario   *)
MaxCertEntries == 3

(* Fabric indices queried by the certificate operations                    *)
MaxQueryIndex == 2

Pairs(ks, vs) == {<<k, v>> : k \in ks, v \in vs}

(* <<key, value>> members of the files of the classification scenarios     *)
ClassifyPool ==
    Pairs({K_f1n, K_fAn, K_f10n, K_f2n, K_f3n, K_fzn, K_f1x, K_ggdc, K_gfsn, K_gzz, K_Example,
           K_7},
          {V_test})
    \cup Pairs({K_f1m, K_f01m}, {V_meta, V_invalid})
    \cup Pairs({K_fAm, K_f1k0, K_f1k00, K_f1kx, K_f1s70}, {V_invalid})
    \cup Pairs({K_gfidx}, {V_fidx, V_invalid})
    \cup Pairs({K_glkgt}, {V_lkgt, V_invalid})
    \cup Pairs({K_gsri}, {V_sri, V_invalid})
    \cup Pairs({K_gsr1}, {V_sre1, V_sre10, V_invalid})
    \cup Pairs({K_gsr2}, {V_sre1})

(* One member for each bucket of the model                                 *)
BucketPool ==
    {<<K_f1n, V_test>>, <<K_f1m, V_meta>>, <<K_f1k0, V_invalid>>, <<K_gfidx, V_fidx>>,
     <<K_gsri, V_sri>>, <<K_gsr1, V_sre1>>, <<K_ggdc, V_test>>, <<K_Example, V_test>>}

(* <<key, value>> members of the files of the certificate scenarios        *)
CertPool ==
    Pairs({K_f1r}, {V_rcacGood, V_rcacBad, V_invalid})
    \cup Pairs({K_f1i}, {V_icacGood, V_icacBad, V_invalid})
    \cup Pairs({K_f1n}, {V_nocViaIcac, V_nocViaRoot, V_invalid})
    \cup Pairs({K_f2r}, {V_rcacGood, V_rcacBad})
    \cup Pairs({K_f2n}, {V_nocViaRoot})

(* <<key, value>> members of the files of the routing scenarios: every    *)
(* sub-key of a fabric with a payload that decodes and one that does not,  *)
(* two fabrics, the globals, resumption entries, an ignored key and        *)
(* generic keys                                                            *)
RoutingPool ==
    Pairs({K_f1n, K_f1i, K_f1r, K_f1x, K_fAx, K_f1k, K_f2n, K_ggdc, K_Example, K_7}, {V_test})
    \cup Pairs({K_f1m}, {V_meta, V_invalid})
    \cup Pairs({K_f1k0}, {V_ksIpk, V_invalid})
    \cup Pairs({K_f1kx}, {V_invalid})
    \cup Pairs({K_f1s70}, {V_session, V_invalid})
    \cup {<<K_gfidx, V_fidx>>, <<K_glkgt, V_lkgt>>, <<K_gsri, V_sri>>}
    \cup Pairs({K_gsr1}, {V_sre1, V_sre10, V_invalid})
    \cup Pairs({K_gsr2}, {V_sre1})

ReplPool == {None, Some(<<>>), Some(<<<<"test", "value">>>>)}

DistinctKeys(ms) == \A i, j \in 1..Len(ms) : i # j => ms[i][1] # ms[j][1]

(* The well-formed "sdk-config" texts with at most n members from pool     *)
Members(pool, n) ==
    {ms \in UNION {[1..k -> pool] : k \in 0..n} : DistinctKeys(ms)}

NoFile == <<>>

(* Contents load() cannot use: text that is not JSON, and the JSON text    *)
(* null, which parses to a value without members                           *)
NotJson == <<[text |-> "not json"]>>
JsonNull == <<[text |-> "null"]>>
Paths == {"orig", "saved", "out"}
Instances == {"A", "B"}

-----------------------------------------------------------------------------
(* State.                                                                  *)
(*   disk[p]    the file at path p: NoFile, or <<[sdk, repl]>>             *)
(*   inst[i]    the in-memory model of converter instance i                *)
(*   loaded[i]  what instance i last loaded: "none", "orig", or, for the   *)
(*              saved file, "fresh"/"full" as recorded in disk's writer    *)
(*   ret        the value returned by the last query, <<name, i, value>>   *)
(*   vpc, vctx  position and locals of a running verifyCertificateChain    *)
(*   vres       the result the last verifyCertificateChain resolved with   *)
(*   vcalls     the certificate library's verify operations invoked by the *)
(*              current verifyCertificateChain, in order                   *)
(*   log        the load() calls that have settled, <<instance, path>>, in *)
(*              the order they settled                                     *)
(*   pending    the readFile and writeFile operations in flight            *)

NoCtx == [fabricIndex |-> 0, rcac |-> None, icac |-> None, noc |-> None,
          result |-> [valid |-> FALSE, rcacValid |-> None, icacValid |-> None,
                      nocValid |-> None, error |-> None]]

InitFiles(files, repls, elsewhere) ==
    /\ \E ms \in files, r \in repls, other \in elsewhere :
          disk = [p \in Paths |-> IF p = "orig"
                                  THEN Some([sdk |-> ms, repl |-> r, writer |-> "input"])
                                  ELSE IF p = "saved" THEN other
                                  ELSE NoFile]
    /\ inst = [i \in Instances |-> EmptyModel]
    /\ loaded = [i \in Instances |-> "none"]
    /\ ret = None
    /\ vpc = "idle"
    /\ vctx = NoCtx
    /\ vres = None
    /\ vcalls = <<>>
    /\ log = <<>>
    /\ pending = {}

InitFrom(files, repls) == InitFiles(files, repls, {NoFile})

InitWith(pool, n, repls) == InitFrom(Members(pool, n), repls)

(* The input files of the classification scenarios: every file over the    *)
(* classification pool without "repl-config", and the files over the       *)
(* bucket pool with an empty and with a non-empty "repl-config"            *)
Init ==
    \/ InitWith(ClassifyPool, MaxEntries, {None})
    \/ InitWith(BucketPool, MaxEntries, ReplPool \ {None})

InitVerify == InitWith(CertPool, MaxCertEntries, {None})

(* Mutant: the model is cleared before the file is read and parsed         *)
LoadAborted_Cleared(m) == ClearModel(m)

(* The model after a load() that rejected in readFile or JSON.parse:       *)
(* nothing has been cleared yet                                            *)
LoadAborted(m) == m

(* The model after a load() of the JSON text null: the maps and fields     *)
(* were cleared before data["repl-config"] threw                           *)
LoadOfNull(m) == ClearModel(m)

(* load(filePath) on instance i from the point where readFile settles: it  *)
(* runs to its end without another await.  readFile rejects when there is  *)
(* no file and JSON.parse throws on malformed text, before anything is     *)
(* cleared; the rejection is what the caller gets back.                    *)
LoadSettles(i, p) ==
    /\ IF disk[p] \in {NoFile, NotJson, JsonNull}
       THEN /\ inst' = [inst EXCEPT ![i] = IF disk[p] = JsonNull THEN LoadOfNull(@)
                                           ELSE LoadAborted(@)]
            /\ ret' = Some(<<"load", i, "rejected">>)
            /\ UNCHANGED loaded
       ELSE /\ inst' = [inst EXCEPT ![i] = LoadInto(@, Val(disk[p]))]
            /\ loaded' = [loaded EXCEPT ![i] =
                             IF Val(disk[p]).writer = "input" THEN "orig" ELSE Val(disk[p]).writer]
            /\ UNCHANGED ret
    /\ log' = Append(log, <<i, p>>)
    /\ UNCHANGED <<disk, vpc, vctx, vres, vcalls>>

(* load(filePath) on instance i, called and settled with nothing else in   *)
(* between                                                                 *)
Load(i, p) == LoadSettles(i, p) /\ UNCHANGED pending

(* save(filePath) on instance i                                            *)
Save(i, p) ==
    /\ disk' = [disk EXCEPT ![p] =
                   Some(SaveFile(inst[i]) @@
                        [writer |-> IF loaded[i] = "orig" THEN "full" ELSE "fresh"])]
    /\ UNCHANGED <<inst, loaded, ret, vpc, vctx, vres, vcalls, log, pending>>

(* getFabricIndices() on instance i                                        *)
GetFabricIndices(i) ==
    /\ ret' = Some(<<"getFabricIndices", i, getFabricIndices(inst[i])>>)
    /\ UNCHANGED <<disk, inst, loaded, vpc, vctx, vres, vcalls, log, pending>>

(* The scenario: instance A loads the input file and saves it to a second *)
(* path, a fresh instance B loads what was saved, and an instance that has *)
(* loaded is queried.  Each step of the scenario is taken once.            *)
Next ==
    \/ loaded["A"] = "none" /\ Load("A", "orig")
    \/ loaded["A"] # "none" /\ disk["saved"] = NoFile /\ Save("A", "saved")
    \/ loaded["B"] = "none" /\ disk["saved"] # NoFile /\ Load("B", "saved")
    \/ \E i \in Instances : loaded[i] # "none" /\ ret = None /\ GetFabricIndices(i)

Spec == Init /\ [][Next]_vars

(* The scenario of a failing load: the second path holds no file, text     *)
(* that is not JSON, or null; instance A loads the input file and then, or *)
(* instead, tries to load the second path.                                 *)
InitReload ==
    InitFiles(Members(BucketPool, MaxEntries), {None, Some(<<<<"test", "value">>>>)},
              {NoFile, NotJson, JsonNull})

NextReload ==
    \/ loaded["A"] = "none" /\ ret = None /\ Load("A", "orig")
    \/ ret = None /\ Load("A", "saved")

SpecReload == InitReload /\ [][NextReload]_vars

(* The routing scenario: instance A loads a file of the routing pool and   *)
(* saves it to the second path.                                            *)
InitRouting == InitWith(RoutingPool, MaxEntries, {None})

NextRouting ==
    \/ loaded["A"] = "none" /\ Load("A", "orig")
    \/ loaded["A"] # "none" /\ disk["saved"] = NoFile /\ Save("A", "saved")

SpecRouting == InitRouting /\ [][NextRouting]_vars

(* The members of a sequence at the positions S, in their order            *)
Pick(members, S) ==
    [j \in 1..Cardinality(S) |->
        members[CHOOSE i \in S : Cardinality({h \in S : h < i}) = j - 1]]

(* One member for the fabrics, the globals, the resumptions, the ignored   *)
(* and the generic map                                                     *)
ReplacedMembers ==
    <<<<K_f1n, V_test>>, <<K_gfidx, V_fidx>>, <<K_gsr1, V_sre10>>, <<K_ggdc, V_test>>,
      <<K_Example, V_test>>>>

(* The files made of some of these members                                 *)
ReplacedFiles == {Pick(ReplacedMembers, S) : S \in SUBSET (1..Len(ReplacedMembers))}

(* An instance is loaded at most this many times                           *)
MaxLoads == 2

(* The scenario of repeated loads: two files, with any of the members, the *)
(* first with or without a "repl-config"; instance A loads either path,    *)
(* again and again.                                                        *)
InitTwice ==
    InitFiles(ReplacedFiles, {None, Some(<<<<"test", "value">>>>)},
              {Some([sdk |-> ms, repl |-> None, writer |-> "input"]) : ms \in ReplacedFiles})

NextTwice == \E p \in {"orig", "saved"} : Len(log) < MaxLoads /\ Load("A", p)

SpecTwice == InitTwice /\ [][NextTwice]_vars

(* load() and save() as asynchronous operations.  An operation in flight   *)
(* is a record of pending: the readFile a load() awaits, or the writeFile  *)
(* a save() awaits together with the text it was called with.  settled is  *)
(* the number of loads that had settled when the operation was called.     *)

Reads == {o \in pending : o.op = "readFile"}
Writes == {o \in pending : o.op = "writeFile"}

(* Mutant: the model is cleared before the file is read                    *)
LoadBeforeRead_Clears(m) == ClearModel(m)

(* The model when load() reaches await readFile: nothing was assigned      *)
LoadBeforeRead(m) == m

(* load(filePath) is called on instance i and awaits readFile              *)
LoadCalled(i, p) ==
    /\ inst' = [inst EXCEPT ![i] = LoadBeforeRead(@)]
    /\ pending' = pending \cup {[op |-> "readFile", inst |-> i, path |-> p,
                                  settled |-> Len(log)]}
    /\ UNCHANGED <<disk, loaded, ret, vpc, vctx, vres, vcalls, log>>

(* The readFile of a load() settles and the load() runs to its end         *)
ReadFileSettled(o) ==
    /\ o \in Reads
    /\ LoadSettles(o.inst, o.path)
    /\ pending' = pending \ {o}

(* save(filePath) is called on instance i: the key map and the text are    *)
(* built, and writeFile is awaited                                         *)
SaveCalled(i, p) ==
    /\ pending' = pending \cup {[op |-> "writeFile", path |-> p, file |-> SaveFile(inst[i]),
                                  settled |-> Len(log)]}
    /\ UNCHANGED <<disk, inst, loaded, ret, vpc, vctx, vres, vcalls, log>>

(* The writeFile of a save() settles: the file holds the text              *)
WriteFileSettled(o) ==
    /\ o \in Writes
    /\ disk' = [disk EXCEPT ![o.path] = Some(o.file @@ [writer |-> "save"])]
    /\ pending' = pending \ {o}
    /\ UNCHANGED <<inst, loaded, ret, vpc, vctx, vres, vcalls, log>>

(* The second file of the concurrent scenarios: no member, one generic     *)
(* member, or a member for every bucket                                    *)
SecondFiles == {<<>>, <<<<K_Example, V_test>>>>, ReplacedMembers}

(* The concurrent scenario: the two paths hold files; load() is called on  *)
(* instance A for either path, up to MaxLoads times, also while an earlier *)
(* load() of the other path is in flight; save() to a third path is called *)
(* once, at any moment; the reads and the write settle in any order.       *)
InitAsync ==
    InitFiles(ReplacedFiles, {None, Some(<<<<"test", "value">>>>)},
              {Some([sdk |-> ms, repl |-> None, writer |-> "input"]) : ms \in SecondFiles})

NextAsync ==
    \/ \E p \in {"orig", "saved"} :
          /\ Len(log) + Cardinality(Reads) < MaxLoads
          /\ \A o \in Reads : o.path # p
          /\ LoadCalled("A", p)
    \/ \E o \in pending : ReadFileSettled(o)
    \/ disk["out"] = NoFile /\ Writes = {} /\ SaveCalled("A", "out")
    \/ \E o \in pending : WriteFileSettled(o)

SpecAsync == InitAsync /\ [][NextAsync]_vars

-----------------------------------------------------------------------------
(* Certificate queries and verifyCertificateChain                          *)

(* Mutant: the lookup answers with a new fabric when there is none         *)
getFabric_Creating(m, fabricIndex) ==
    IF MapHas(m.fabrics, fabricIndex) THEN MapGet(m.fabrics, fabricIndex)
    ELSE Some(NewFabric(fabricIndex))

(* getFabric(index), and fabric?.<field> of this.fabrics.get(fabricIndex)  *)
getFabric(m, fabricIndex) == MapGet(m.fabrics, fabricIndex)

(* Mutant: the decode is not guarded; garbage bytes give a certificate     *)
CertOf_Unguarded(m, fabricIndex, kind) ==
    LET fabric == getFabric(m, fabricIndex)
        entry  == IF ~IsSome(fabric) THEN None
                  ELSE IF kind = KindRcac THEN Val(fabric).rcac
                  ELSE IF kind = KindIcac THEN Val(fabric).icac
                  ELSE Val(fabric).noc
    IN IF ~IsSome(entry) THEN None
       ELSE IF IsSome(CertFromTlv(kind, Val(entry).raw)) THEN CertFromTlv(kind, Val(entry).raw)
       ELSE Some([kind |-> kind, subject |-> 0, issuer |-> 0])

(* getRcac/getIcac/getNoc: undefined without the fabric or its entry, and  *)
(* when fromTlv throws                                                     *)
CertOf(m, fabricIndex, kind) ==
    LET fabric == getFabric(m, fabricIndex)
        entry  == IF ~IsSome(fabric) THEN None
                  ELSE IF kind = KindRcac THEN Val(fabric).rcac
                  ELSE IF kind = KindIcac THEN Val(fabric).icac
                  ELSE Val(fabric).noc
    IN IF ~IsSome(entry) THEN None ELSE CertFromTlv(kind, Val(entry).raw)

getRcac(m, fabricIndex) == CertOf(m, fabricIndex, KindRcac)
getIcac(m, fabricIndex) == CertOf(m, fabricIndex, KindIcac)
getNoc(m, fabricIndex) == CertOf(m, fabricIndex, KindNoc)

(* e.message of the error a failed verify throws                           *)
VerifyFailure == "signature verification failed"

NewResult == [valid |-> FALSE, rcacValid |-> None, icacValid |-> None,
              nocValid |-> None, error |-> None]

(* Mutant: the NOC is looked at before the RCAC                            *)
MissingCertificate_NocFirst(rcac, noc) ==
    IF ~IsSome(noc) THEN Some(<<"NOC not found or invalid">>)
    ELSE IF ~IsSome(rcac) THEN Some(<<"RCAC not found or invalid">>)
    ELSE None

(* The early returns: the error of a missing or undecodable RCAC, then of  *)
(* a missing or undecodable NOC; None when both decoded                    *)
MissingCertificate(rcac, noc) ==
    IF ~IsSome(rcac) THEN Some(<<"RCAC not found or invalid">>)
    ELSE IF ~IsSome(noc) THEN Some(<<"NOC not found or invalid">>)
    ELSE None

(* verifyCertificateChain(fabricIndex) on instance A, up to its first      *)
(* await: the certificates are decoded, and rcac.verify is invoked unless  *)
(* the RCAC or the NOC is missing.                                         *)
VerifyStart(fabricIndex) ==
    /\ vpc = "idle"
    /\ LET rcac == getRcac(inst["A"], fabricIndex)
           icac == getIcac(inst["A"], fabricIndex)
           noc  == getNoc(inst["A"], fabricIndex)
       IN IF IsSome(MissingCertificate(rcac, noc)) THEN
              /\ vres' = Some([NewResult EXCEPT !.error = MissingCertificate(rcac, noc)])
              /\ vcalls' = <<>>
              /\ vctx' = [NoCtx EXCEPT !.fabricIndex = fabricIndex]
              /\ UNCHANGED vpc
          ELSE
              /\ vctx' = [fabricIndex |-> fabricIndex, rcac |-> rcac, icac |-> icac,
                          noc |-> noc, result |-> NewResult]
              /\ vcalls' = <<"rcac.verify">>
              /\ vpc' = "rcac"
              /\ vres' = None
    /\ UNCHANGED <<disk, inst, loaded, ret, log, pending>>

(* Mutant: the failed step's flag is left unset                            *)
RcacFailed_FlagUnset(result) ==
    [result EXCEPT !.error = Some(<<"RCAC verification failed: ", VerifyFailure>>)]

(* The results returned from the catch blocks                              *)
RcacFailed(result) ==
    [result EXCEPT !.rcacValid = Some(FALSE),
                   !.error = Some(<<"RCAC verification failed: ", VerifyFailure>>)]

(* Mutant: the NOC is marked as checked although the ICAC step failed      *)
IcacFailed_NocChecked(result) ==
    [result EXCEPT !.icacValid = Some(FALSE), !.nocValid = Some(FALSE),
                   !.error = Some(<<"ICAC verification failed: ", VerifyFailure>>)]

IcacFailed(result) ==
    [result EXCEPT !.icacValid = Some(FALSE),
                   !.error = Some(<<"ICAC verification failed: ", VerifyFailure>>)]

(* Mutant: the NOC failure is returned without its reason                  *)
NocFailed_NoReason(result) == [result EXCEPT !.nocValid = Some(FALSE)]

NocFailed(result) ==
    [result EXCEPT !.nocValid = Some(FALSE),
                   !.error = Some(<<"NOC verification failed: ", VerifyFailure>>)]

(* rcac.verify settles: on success the next verify is invoked              *)
VerifyRcacSettled ==
    /\ vpc = "rcac"
    /\ IF RcacVerify(Val(vctx.rcac)) THEN
           /\ vctx' = [vctx EXCEPT !.result.rcacValid = Some(TRUE)]
           /\ IF IsSome(vctx.icac)
              THEN vpc' = "icac" /\ vcalls' = Append(vcalls, "icac.verify")
              ELSE vpc' = "noc" /\ vcalls' = Append(vcalls, "noc.verify")
           /\ UNCHANGED vres
       ELSE
           /\ vctx' = [vctx EXCEPT !.result.rcacValid = Some(FALSE)]
           /\ vres' = Some(RcacFailed(vctx.result))
           /\ vpc' = "idle"
           /\ UNCHANGED vcalls
    /\ UNCHANGED <<disk, inst, loaded, ret, log, pending>>

(* icac.verify(crypto, rcac) settles                                       *)
VerifyIcacSettled ==
    /\ vpc = "icac"
    /\ IF IcacVerify(Val(vctx.icac), Val(vctx.rcac)) THEN
           /\ vctx' = [vctx EXCEPT !.result.icacValid = Some(TRUE)]
           /\ vpc' = "noc"
           /\ vcalls' = Append(vcalls, "noc.verify")
           /\ UNCHANGED vres
       ELSE
           /\ vctx' = [vctx EXCEPT !.result.icacValid = Some(FALSE)]
           /\ vres' = Some(IcacFailed(vctx.result))
           /\ vpc' = "idle"
           /\ UNCHANGED vcalls
    /\ UNCHANGED <<disk, inst, loaded, ret, log, pending>>

(* Mutant: the NOC is fetched again from the fabric when its verify is due *)
VerifiedNoc_Reread(ctx, m) ==
    IF IsSome(getNoc(m, ctx.fabricIndex)) THEN getNoc(m, ctx.fabricIndex) ELSE ctx.noc

(* The noc that noc.verify is invoked on: the constant of the call         *)
VerifiedNoc(ctx, m) == ctx.noc

(* noc.verify(crypto, rcac, icac) settles                                  *)
VerifyNocSettled ==
    /\ vpc = "noc"
    /\ IF NocVerify(Val(VerifiedNoc(vctx, inst["A"])), Val(vctx.rcac), vctx.icac) THEN
           /\ vctx' = [vctx EXCEPT !.result.nocValid = Some(TRUE), !.result.valid = TRUE]
           /\ vres' = Some([vctx.result EXCEPT !.nocValid = Some(TRUE), !.valid = TRUE])
       ELSE
           /\ vctx' = [vctx EXCEPT !.result.nocValid = Some(FALSE)]
           /\ vres' = Some(NocFailed(vctx.result))
    /\ vpc' = "idle"
    /\ UNCHANGED <<disk, inst, loaded, ret, vcalls, log, pending>>

(* The scenario: instance A loads the input file; its chain is verified    *)
(* once, for an index that may or may not name a fabric, before or after   *)
(* the load.                                                               *)
NextVerify ==
    \/ loaded["A"] = "none" /\ vpc = "idle" /\ vres = None /\ Load("A", "orig")
    \/ \E i \in 1..MaxQueryIndex : vres = None /\ VerifyStart(i)
    \/ VerifyRcacSettled
    \/ VerifyIcacSettled
    \/ VerifyNocSettled

SpecVerify == InitVerify /\ [][NextVerify]_vars

(* Every awaited verify of the certificate library settles: it resolves or *)
(* it throws, and the code resumes after the await in either case.         *)
SpecVerifyFair ==
    /\ SpecVerify
    /\ WF_vars(VerifyRcacSettled)
    /\ WF_vars(VerifyIcacSettled)
    /\ WF_vars(VerifyNocSettled)

(* The files a load() brings in while a verification is in progress: no    *)
(* fabric, fabric 1 with another NOC, fabric 1 with another chain          *)
RacingFiles ==
    {<<>>,
     <<<<K_f1n, V_nocViaIcac>>>>,
     <<<<K_f1r, V_rcacBad>>, <<K_f1n, V_nocViaRoot>>>>,
     <<<<K_f1r, V_rcacGood>>, <<K_f1i, V_icacBad>>, <<K_f1n, V_nocViaRoot>>>>}

InitVerifyRace ==
    InitFiles(Members(CertPool, MaxCertEntries), {None},
              {Some([sdk |-> ms, repl |-> None, writer |-> "input"]) : ms \in RacingFiles})

(* The scenario: instance A loads the first file and verifyCertificateChain *)
(* is called once; while it awaits a verify, a load() of the second file   *)
(* settles.                                                                *)
NextVerifyRace ==
    \/ log = <<>> /\ Load("A", "orig")
    \/ \E i \in 1..MaxQueryIndex : Len(log) = 1 /\ vres = None /\ VerifyStart(i)
    \/ Len(log) = 1 /\ vpc # "idle" /\ Load("A", "saved")
    \/ VerifyRcacSettled
    \/ VerifyIcacSettled
    \/ VerifyNocSettled

SpecVerifyRace == InitVerifyRace /\ [][NextVerifyRace]_vars

-----------------------------------------------------------------------------
(* getFabricConfig and the certificate getters as operations               *)

(* Mutant: the first entry of the key set is taken whatever its length     *)
FindIpk_FirstEntry(keys) == IF keys = <<>> THEN None ELSE Some(keys[1])

(* ipkKeySet.keys.find(k => k.key.byteLength === 16)                       *)
FindIpk(keys) ==
    IF \E j \in 1..Len(keys) : Len(keys[j].key) = 16
    THEN Some(keys[CHOOSE j \in 1..Len(keys) :
                       /\ Len(keys[j].key) = 16
                       /\ \A h \in 1..(j - 1) : Len(keys[h].key) # 16])
    ELSE None

(* The record getFabricConfig returns.  fabricId, nodeId and rootNodeId    *)
(* are the subjects' optional attributes, intermediateCACert is            *)
(* fabric.icac?.raw.                                                       *)
FabricConfigRecord(fabricIndex, fabric, rcac, noc, ipkEntry) ==
    [fabricIndex           |-> fabricIndex,
     fabricId              |-> CertSubject(noc).fabricId,
     nodeId                |-> CertSubject(noc).nodeId,
     rootNodeId            |-> CertSubject(rcac).rcacId,
     rootVendorId          |-> Val(fabric.metadataDecoded).vendorId,
     rootCert              |-> Val(fabric.rcac).raw,
     rootPublicKey         |-> CertPublicKey(rcac),
     identityProtectionKey |-> ipkEntry.key,
     intermediateCACert    |-> IF IsSome(fabric.icac) THEN Some(Val(fabric.icac).raw) ELSE None,
     operationalCert       |-> Val(fabric.noc).raw,
     label                 |-> Val(fabric.metadataDecoded).label]

(* The two subject checks: nodeId and fabricId of the NOC, rcacId of the   *)
(* RCAC                                                                    *)
SubjectsComplete(rcac, noc) ==
    /\ IsSome(CertSubject(noc).nodeId)
    /\ IsSome(CertSubject(noc).fabricId)
    /\ IsSome(CertSubject(rcac).rcacId)

(* getFabricConfig(fabricIndex): None where the code returns undefined     *)
getFabricConfig(m, fabricIndex) ==
    LET fabric == getFabric(m, fabricIndex)
        rcac   == getRcac(m, fabricIndex)
        noc    == getNoc(m, fabricIndex)
    IN IF ~IsSome(fabric) THEN None
       ELSE IF ~IsSome(rcac) \/ ~IsSome(noc) THEN None
       ELSE IF ~IsSome(Val(fabric).rcac) \/ ~IsSome(Val(fabric).noc) THEN None
       ELSE IF ~SubjectsComplete(Val(rcac), Val(noc)) THEN None
       ELSE IF ~IsSome(Val(fabric).metadataDecoded) THEN None
       ELSE LET ipkKeySet == MapGet(Val(fabric).keysDecoded, Some(0))
            IN IF ~IsSome(ipkKeySet) THEN None
               ELSE IF Len(Val(ipkKeySet).keys) = 0 THEN None
               ELSE LET ipkEntry == FindIpk(Val(ipkKeySet).keys)
                    IN IF ~IsSome(ipkEntry) THEN None
                       ELSE Some(FabricConfigRecord(fabricIndex, Val(fabric), Val(rcac),
                                                    Val(noc), Val(ipkEntry)))

(* getFabricConfig(fabricIndex) on instance A                              *)
GetFabricConfig(fabricIndex) ==
    /\ ret' = Some(<<"getFabricConfig", fabricIndex, getFabricConfig(inst["A"], fabricIndex)>>)
    /\ UNCHANGED <<disk, inst, loaded, vpc, vctx, vres, vcalls, log, pending>>

(* getRcac(fabricIndex), getIcac(fabricIndex), getNoc(fabricIndex) on      *)
(* instance A                                                              *)
GetRcac(fabricIndex) ==
    /\ ret' = Some(<<"getRcac", fabricIndex, getRcac(inst["A"], fabricIndex)>>)
    /\ UNCHANGED <<disk, inst, loaded, vpc, vctx, vres, vcalls, log, pending>>

GetIcac(fabricIndex) ==
    /\ ret' = Some(<<"getIcac", fabricIndex, getIcac(inst["A"], fabricIndex)>>)
    /\ UNCHANGED <<disk, inst, loaded, vpc, vctx, vres, vcalls, log, pending>>

GetNoc(fabricIndex) ==
    /\ ret' = Some(<<"getNoc", fabricIndex, getNoc(inst["A"], fabricIndex)>>)
    /\ UNCHANGED <<disk, inst, loaded, vpc, vctx, vres, vcalls, log, pending>>

(* getFabric(index) on instance A                                          *)
GetFabric(index) ==
    /\ ret' = Some(<<"getFabric", index, getFabric(inst["A"], index)>>)
    /\ UNCHANGED <<disk, inst, loaded, vpc, vctx, vres, vcalls, log, pending>>

(* The files of the fabric configuration scenarios: each of fabric 1's     *)
(* members is absent or has one of its values                              *)
OptMember(k, vs) == {<<>>} \cup {<<<<k, v>>>> : v \in vs}

ConfigFiles ==
    {r \o n \o i \o m \o a \o k :
        r \in OptMember(K_f1r, {V_rcacGood, V_rcacNoId, V_invalid}),
        n \in OptMember(K_f1n, {V_nocFull, V_nocNoNodeId, V_nocViaRoot, V_invalid}),
        i \in OptMember(K_f1i, {V_icacGood, V_invalid}),
        m \in OptMember(K_f1m, {V_meta, V_invalid}),
        a \in OptMember(K_f01m, {V_invalid}),
        k \in OptMember(K_f1k0, {V_ksIpk, V_ksShortIpk, V_ksShort, V_ksEmpty, V_invalid})}

InitConfig == InitFrom(ConfigFiles, {None})

(* The scenario: instance A loads the input file and is queried once,      *)
(* before or after the load, for an index that may or may not name a       *)
(* fabric.                                                                 *)
NextConfig ==
    \/ loaded["A"] = "none" /\ ret = None /\ Load("A", "orig")
    \/ \E i \in 1..MaxQueryIndex : ret = None /\ GetFabricConfig(i)
    \/ \E i \in 1..MaxQueryIndex : ret = None /\ GetRcac(i)
    \/ \E i \in 1..MaxQueryIndex : ret = None /\ GetIcac(i)
    \/ \E i \in 1..MaxQueryIndex : ret = None /\ GetNoc(i)

SpecConfig == InitConfig /\ [][NextConfig]_vars

(* The scenario of the operations next to load(): instance A loads a file  *)
(* of the certificate scenarios and, before or after, one of its other     *)
(* operations is called once, for an index that may or may not name a      *)
(* fabric.                                                                 *)
Quiet == ret = None /\ vres = None /\ vpc = "idle" /\ disk["saved"] = NoFile

NextFrame ==
    \/ loaded["A"] = "none" /\ Quiet /\ Load("A", "orig")
    \/ Quiet /\ Save("A", "saved")
    \/ Quiet /\ GetFabricIndices("A")
    \/ \E i \in 1..MaxQueryIndex : Quiet /\ GetFabric(i)
    \/ \E i \in 1..MaxQueryIndex : Quiet /\ GetRcac(i)
    \/ \E i \in 1..MaxQueryIndex : Quiet /\ GetIcac(i)
    \/ \E i \in 1..MaxQueryIndex : Quiet /\ GetNoc(i)
    \/ \E i \in 1..MaxQueryIndex : Quiet /\ GetFabricConfig(i)
    \/ \E i \in 1..MaxQueryIndex : Quiet /\ VerifyStart(i)
    \/ VerifyRcacSettled
    \/ VerifyIcacSettled
    \/ VerifyNocSettled

SpecFrame == InitVerify /\ [][NextFrame]_vars

(* What a caller holds after a query.  getFabric(index) returns the very   *)
(* FabricData object that is the value of this.fabrics, and the record of  *)
(* getFabricConfig holds in rootCert the very Uint8Array that is           *)
(* fabric.rcac.raw: a write through either one is a write to the           *)
(* instance's object.                                                      *)

(* The caller of getFabric(index) calls keys.clear() on what it got        *)
CallerClearsKeys ==
    /\ IsSome(ret)
    /\ Val(ret)[1] = "getFabric"
    /\ IsSome(Val(ret)[3])
    /\ Val(Val(ret)[3]).keys # <<>>
    /\ LET index  == Val(ret)[2]
           object == [Val(Val(ret)[3]) EXCEPT !.keys = <<>>]
       IN /\ ret' = Some(<<"getFabric", index, Some(object)>>)
          /\ inst' = [inst EXCEPT !["A"].fabrics = MapSet(@, index, object)]
    /\ UNCHANGED <<disk, loaded, vpc, vctx, vres, vcalls, log, pending>>

(* The caller of getFabricConfig(index) sets rootCert[0] = 0 in the record *)
(* it got                                                                  *)
CallerWritesRootCert ==
    /\ IsSome(ret)
    /\ Val(ret)[1] = "getFabricConfig"
    /\ IsSome(Val(ret)[3])
    /\ Val(Val(ret)[3]).rootCert[1] # 0
    /\ LET index  == Val(ret)[2]
           bytes  == [Val(Val(ret)[3]).rootCert EXCEPT ![1] = 0]
           fabric == Val(getFabric(inst["A"], index))
       IN /\ ret' = Some(<<"getFabricConfig", index,
                           Some([Val(Val(ret)[3]) EXCEPT !.rootCert = bytes])>>)
          /\ inst' = [inst EXCEPT !["A"].fabrics =
                         MapSet(@, index,
                                [fabric EXCEPT !.rcac = Some([Val(fabric.rcac) EXCEPT !.raw = bytes])])]
    /\ UNCHANGED <<disk, loaded, vpc, vctx, vres, vcalls, log, pending>>

(* The files of the caller scenarios: fabric 1 with or without each of its *)
(* members                                                                 *)
HandleFiles ==
    {r \o n \o i \o m \o k :
        r \in OptMember(K_f1r, {V_rcacGood}),
        n \in OptMember(K_f1n, {V_nocFull}),
        i \in OptMember(K_f1i, {V_icacGood}),
        m \in OptMember(K_f1m, {V_meta}),
        k \in OptMember(K_f1k0, {V_ksIpk, V_ksShortIpk})}

InitHandle == InitFrom(HandleFiles, {None})

(* The scenario: instance A loads the file, a caller asks for a fabric or  *)
(* for its configuration, modifies what it got, and asks for the           *)
(* certificate again or saves.                                             *)
NextHandle ==
    \/ loaded["A"] = "none" /\ Load("A", "orig")
    \/ \E i \in 1..MaxQueryIndex : loaded["A"] # "none" /\ ret = None /\ GetFabric(i)
    \/ \E i \in 1..MaxQueryIndex : loaded["A"] # "none" /\ ret = None /\ GetFabricConfig(i)
    \/ CallerClearsKeys
    \/ CallerWritesRootCert
    \/ \E i \in 1..MaxQueryIndex :
          /\ IsSome(ret) /\ Val(ret)[1] = "getFabricConfig" /\ Val(ret)[2] = i
          /\ GetRcac(i)
    \/ IsSome(ret) /\ Val(ret)[1] = "getFabric" /\ disk["saved"] = NoFile /\ Save("A", "saved")

SpecHandle == InitHandle /\ [][NextHandle]_vars

-----------------------------------------------------------------------------
(* Vocabulary of the properties                                            *)

(* The input file's "sdk-config" as load() sees it, and as a set of pairs  *)
OrigObj == ObjFromMembers(Val(disk["orig"]).sdk)
PairSet(o) == {o[i] : i \in 1..Len(o)}
KeySet(o) == {o[i][1] : i \in 1..Len(o)}

ALoaded == loaded["A"] = "orig"
ASaved == disk["saved"] # NoFile
BReloaded == loaded["B"] = "full"
SavedObj == Val(disk["saved"]).sdk

(* <<key, base64>> pairs of a Map of DecodedEntry; base64 of an optional entry *)
EntryPairs(map) == {<<map[i][1], map[i][2].base64>> : i \in 1..Len(map)}
OptB64(field) == IF IsSome(field) THEN Some(Val(field).base64) ELSE None

FabricContent(f) ==
    [index |-> f.index, noc |-> OptB64(f.noc), icac |-> OptB64(f.icac), rcac |-> OptB64(f.rcac),
     metadata |-> OptB64(f.metadata), keys |-> EntryPairs(f.keys),
     sessions |-> EntryPairs(f.sessions), resumptions |-> EntryPairs(f.resumptions),
     other |-> EntryPairs(f.other)]

(* What an instance holds, without the order of its maps                   *)
ModelContent(m) ==
    [indices         |-> getFabricIndices(m),
     fabrics         |-> {FabricContent(m.fabrics[i][2]) : i \in 1..Len(m.fabrics)},
     fabricIndexList |-> OptB64(m.globals.fabricIndexList),
     lastKnownGood   |-> OptB64(m.globals.lastKnownGoodTime),
     resumptionIndex |-> OptB64(m.sessions.resumptionIndex),
     ignored         |-> PairSet(m.ignored),
     generic         |-> PairSet(m.generic)]

Fabrics(m) == {m.fabrics[i][2] : i \in 1..Len(m.fabrics)}
FabricIndexSet(m) == {m.fabrics[i][1] : i \in 1..Len(m.fabrics)}

IsResumptionKey(k) == startsWith(k, <<"g", "/", "s", "/">>)
IsRecognisedGlobalKey(k) == k \in {K_gfidx, K_glkgt, K_gsri} \/ IsResumptionKey(k)
IsRecognisedFabricKey(k) == IsSome(FabricKeyMatch(k))
ResumptionPayload(v) == TlvSessionResumptionEntry(decodeEntry(v).raw)

-----------------------------------------------------------------------------
(* C1: file-level round trip.  The sdk-config written by save() after      *)
(* load() has exactly the key set of the input sdk-config and, for every   *)
(* key, the identical base64 string.                                       *)
C1_FileRoundTrip == ASaved => PairSet(SavedObj) = PairSet(OrigObj)

(* C2: model-level round trip.  A fresh instance B that loads the file     *)
(* saved by A holds what A holds: the same fabric indices and, in every    *)
(* fabric, the globals, the resumption index, the ignored and the generic  *)
(* map, the same entries with the same base64 values.                      *)
C2_ModelRoundTrip == BReloaded => ModelContent(inst["B"]) = ModelContent(inst["A"])

(* C3: load() drops no key.  Every key that is neither ignored, nor a      *)
(* recognised fabric-scoped key, nor a recognised global key is in the     *)
(* generic bucket after load with its value, and save writes it back.      *)
C3_NoKeyDropped ==
    ALoaded =>
        \A e \in PairSet(OrigObj) :
            (~isIgnoredKey(e[1]) /\ ~IsRecognisedFabricKey(e[1]) /\ ~IsRecognisedGlobalKey(e[1]))
            => /\ e \in PairSet(inst["A"].generic)
               /\ ASaved => e \in PairSet(SavedObj)

IndicesNamedByFile ==
    {parseIntHex(Val(FabricKeyMatch(k))[1]) : k \in {k \in KeySet(OrigObj) : IsRecognisedFabricKey(k)}}
    \cup {Val(ResumptionPayload(e[2])).fabricIndex :
             e \in {e \in PairSet(OrigObj) :
                       IsResumptionKey(e[1]) /\ IsSome(ResumptionPayload(e[2]))}}

(* C5: a g/s/<resumptionId> entry whose value fails to decode is stored    *)
(* in the generic bucket under its key with its original base64 value; no  *)
(* fabric holds a resumption under that id, no fabric exists that the      *)
(* other keys do not account for, and save() writes it back.               *)
C5_UndecodableResumption ==
    ALoaded =>
        \A e \in PairSet(OrigObj) :
            (IsResumptionKey(e[1]) /\ ~IsSome(ResumptionPayload(e[2])))
            => /\ e \in PairSet(inst["A"].generic)
               /\ \A f \in Fabrics(inst["A"]) :
                     ~MapHas(f.resumptions, slice(e[1], 4))
                     /\ ~MapHas(f.resumptionsDecoded, slice(e[1], 4))
               /\ FabricIndexSet(inst["A"]) \subseteq IndicesNamedByFile
               /\ ASaved => e \in PairSet(SavedObj)

(* Witness of C5: the undecodable g/s/r1 was loaded and saved              *)
C5_Witness ==
    /\ ASaved
    /\ <<K_gsr1, V_invalid>> \in PairSet(OrigObj)
    /\ <<K_gsr1, V_invalid>> \in PairSet(SavedObj)
    /\ inst["A"].fabrics = <<>>

(* The kinds of entry load() decodes, by key: "fidx", "lkgt", "sri", "m",  *)
(* "k", "s"; "" for every other key                                        *)
DecodableKind(k) ==
    IF k = K_gfidx THEN "fidx"
    ELSE IF k = K_glkgt THEN "lkgt"
    ELSE IF k = K_gsri THEN "sri"
    ELSE IF ~IsSome(FabricKeyMatch(k)) THEN ""
    ELSE LET sub == Val(FabricKeyMatch(k))[2]
         IN IF sub = <<"m">> THEN "m"
            ELSE IF startsWith(sub, <<"k", "/">>) THEN "k"
            ELSE IF startsWith(sub, <<"s", "/">>) THEN "s"
            ELSE ""

PayloadDecodes(kind, raw) ==
    IF kind = "fidx" THEN IsSome(TlvFabricIndexList(raw))
    ELSE IF kind = "lkgt" THEN IsSome(TlvLastKnownGoodTime(raw))
    ELSE IF kind = "sri" THEN IsSome(TlvSessionResumptionIndex(raw))
    ELSE IF kind = "m" THEN IsSome(TlvFabricMetadata(raw))
    ELSE IF kind = "k" THEN IsSome(TlvGroupKeySet(raw))
    ELSE IsSome(TlvSessionResumptionDetails(raw))

(* Entry e of the file is stored in m where its key says, with its base64, *)
(* and the decoded field or map entry that goes with it is unset           *)
StoredUndecoded(m, e) ==
    LET kind == DecodableKind(e[1])
        v    == e[2]
    IN IF kind = "fidx" THEN
           OptB64(m.globals.fabricIndexList) = Some(v) /\ m.globals.fabricIndexListDecoded = None
       ELSE IF kind = "lkgt" THEN
           OptB64(m.globals.lastKnownGoodTime) = Some(v)
           /\ m.globals.lastKnownGoodTimeDecoded = None
       ELSE IF kind = "sri" THEN
           OptB64(m.sessions.resumptionIndex) = Some(v) /\ m.sessions.resumptionIndexDecoded = None
       ELSE LET match == Val(FabricKeyMatch(e[1]))
                fab   == getFabric(m, parseIntHex(match[1]))
                name  == slice(match[2], 2)
            IN /\ IsSome(fab)
               /\ IF kind = "m" THEN
                      OptB64(Val(fab).metadata) = Some(v) /\ Val(fab).metadataDecoded = None
                  ELSE IF kind = "k" THEN
                      <<parseIntDec(name), v>> \in EntryPairs(Val(fab).keys)
                      /\ ~MapHas(Val(fab).keysDecoded, parseIntDec(name))
                  ELSE
                      <<name, v>> \in EntryPairs(Val(fab).sessions)
                      /\ ~MapHas(Val(fab).sessionsDecoded, name)

(* C6: decode resilience.  For every entry of a decodable kind (f/<i>/m,   *)
(* f/<i>/k/<n>, f/<i>/s/<hex>, g/fidx, g/lkgt, g/sri) whose payload fails  *)
(* to decode, after load the raw/base64 entry is stored and the decoded    *)
(* field or map entry is unset, and save() writes the entry back unchanged. *)
C6_DecodeResilience ==
    ALoaded =>
        \A e \in PairSet(OrigObj) :
            (DecodableKind(e[1]) # ""
             /\ ~PayloadDecodes(DecodableKind(e[1]), decodeEntry(e[2]).raw))
            => /\ StoredUndecoded(inst["A"], e)
               /\ ASaved => e \in PairSet(SavedObj)

(* C7: fabric indices are parsed from the key path as hexadecimal, and     *)
(* getFabricIndices() returns exactly the indices of the fabrics of the    *)
(* model, each once, in ascending numeric order.                           *)
C7_FabricIndices ==
    IsSome(ret) =>
        LET i == Val(ret)[2]
            L == Val(ret)[3]
            S == {L[j] : j \in 1..Len(L)}
        IN /\ \A j \in 1..(Len(L) - 1) : L[j] < L[j + 1]
           /\ S = FabricIndexSet(inst[i])
           /\ i = "A" => /\ S = IndicesNamedByFile
                         /\ K_fAn \in KeySet(OrigObj) => 10 \in S
                         /\ K_f10n \in KeySet(OrigObj) => 16 \in S
                         /\ K_f01m \in KeySet(OrigObj) => 1 \in S

(* Witness of C7: the Map holds fabric 10 (from f/A/n) before fabric 2,    *)
(* and the query returned <<2, 10>>                                        *)
C7_Witness ==
    /\ ret = Some(<<"getFabricIndices", "A", <<2, 10>>>>)
    /\ MapKeys(inst["A"].fabrics) = <<10, 2>>
    /\ KeySet(OrigObj) = {K_fAn, K_f2n}

-----------------------------------------------------------------------------
(* Properties of verifyCertificateChain (under SpecVerify)                 *)

Returned == IsSome(vres)
Result == Val(vres)
QueriedFabric == getFabric(inst["A"], vctx.fabricIndex)

(* The stored bytes of the queried fabric decode as a certificate of kind  *)
StoredBytes(kind) ==
    IF ~IsSome(QueriedFabric) THEN None
    ELSE IF kind = KindRcac THEN Val(QueriedFabric).rcac
    ELSE IF kind = KindIcac THEN Val(QueriedFabric).icac
    ELSE Val(QueriedFabric).noc
Decoded(kind) ==
    IF IsSome(StoredBytes(kind)) THEN CertFromTlv(kind, Val(StoredBytes(kind)).raw) ELSE None

RcacUnavailable == ~IsSome(Decoded(KindRcac))
NocUnavailable == ~IsSome(Decoded(KindNoc))
RcacSelfVerifies == IsSome(Decoded(KindRcac)) /\ RcacVerify(Val(Decoded(KindRcac)))

ErrorIs(text) == IsSome(Result.error) /\ Val(Result.error)[1] = text

(* C8: for an index whose RCAC is missing or undecodable (or that names no *)
(* fabric) the result is {valid: false, error: "RCAC not found or          *)
(* invalid"} with rcacValid, icacValid and nocValid unset, and no verify   *)
(* operation of the certificate library was invoked.                       *)
C8_RcacNotFound ==
    (Returned /\ RcacUnavailable) =>
        /\ Result = [valid |-> FALSE, rcacValid |-> None, icacValid |-> None, nocValid |-> None,
                     error |-> Some(<<"RCAC not found or invalid">>)]
        /\ vcalls = <<>>

(* Witness of C8: fabric 1 exists and holds undecodable RCAC bytes and a   *)
(* decodable NOC; the call for index 1 returned                            *)
C8_Witness ==
    /\ Returned
    /\ vctx.fabricIndex = 1
    /\ StoredBytes(KindRcac) = Some(decodeEntry(V_invalid))
    /\ ~NocUnavailable
    /\ ErrorIs("RCAC not found or invalid")

(* C9 as claimed: a fabric whose RCAC decodes but fails self-verification  *)
(* gets {valid: false, rcacValid: false, error: "RCAC verification         *)
(* failed: ..."} whether or not the NOC is present or decodable, and "NOC  *)
(* not found or invalid" is returned only after RCAC verification has      *)
(* succeeded.                                                              *)
C9_RcacVerifiedBeforeNoc ==
    Returned =>
        /\ (~RcacUnavailable /\ ~RcacSelfVerifies) =>
               /\ ErrorIs("RCAC verification failed: ")
               /\ Result.rcacValid = Some(FALSE)
               /\ Result.valid = FALSE
        /\ ErrorIs("NOC not found or invalid") => Result.rcacValid = Some(TRUE)

(* C9 amended: the steps fail in the order decode RCAC, decode NOC, verify *)
(* RCAC, verify ICAC, verify NOC.  A missing or undecodable NOC is         *)
(* reported before anything is verified (rcacValid unset, no verify        *)
(* invoked); an RCAC that decodes but fails self-verification is reported  *)
(* as "RCAC verification failed: ..." with rcacValid false exactly when    *)
(* the NOC decodes; ICAC and NOC verification failures are reported only   *)
(* after the RCAC verified, a NOC failure only after the ICAC step did not *)
(* fail.                                                                   *)
C9_StepOrder ==
    Returned =>
        /\ RcacUnavailable => ErrorIs("RCAC not found or invalid")
        /\ (~RcacUnavailable /\ NocUnavailable) =>
               /\ ErrorIs("NOC not found or invalid")
               /\ Result.rcacValid = None
               /\ vcalls = <<>>
        /\ (~RcacUnavailable /\ ~NocUnavailable /\ ~RcacSelfVerifies) =>
               /\ ErrorIs("RCAC verification failed: ")
               /\ Result.rcacValid = Some(FALSE)
               /\ Result.valid = FALSE
               /\ vcalls = <<"rcac.verify">>
        /\ ErrorIs("ICAC verification failed: ") =>
               /\ Result.rcacValid = Some(TRUE)
               /\ vcalls = <<"rcac.verify", "icac.verify">>
        /\ ErrorIs("NOC verification failed: ") =>
               /\ Result.rcacValid = Some(TRUE)
               /\ Result.icacValid # Some(FALSE)
               /\ vcalls[1] = "rcac.verify" /\ vcalls[Len(vcalls)] = "noc.verify"

(* Witness of C9: the RCAC decodes and would fail self-verification, the   *)
(* NOC is missing, and the call returned "NOC not found or invalid"        *)
C9_Witness ==
    /\ Returned
    /\ ~RcacUnavailable /\ ~RcacSelfVerifies
    /\ StoredBytes(KindNoc) = None
    /\ ErrorIs("NOC not found or invalid")
    /\ Result.rcacValid = None

(* C10: valid: true is returned if and only if every applicable step       *)
(* succeeded, and a valid: true result has rcacValid = true, nocValid =    *)
(* true, error unset, and icacValid = true when the fabric has an ICAC and *)
(* unset when it has none.                                                 *)
C10_ValidResult ==
    Returned =>
        LET hasIcac == IsSome(StoredBytes(KindIcac))
            icac    == Decoded(KindIcac)
            allOk   == /\ RcacSelfVerifies
                       /\ ~NocUnavailable
                       /\ hasIcac => (IsSome(icac) /\ IcacVerify(Val(icac), Val(Decoded(KindRcac))))
                       /\ NocVerify(Val(Decoded(KindNoc)), Val(Decoded(KindRcac)),
                                    IF hasIcac THEN icac ELSE None)
        IN /\ Result.valid <=> allOk
           /\ Result.valid =>
                  /\ Result.rcacValid = Some(TRUE)
                  /\ Result.nocValid = Some(TRUE)
                  /\ Result.error = None
                  /\ Result.icacValid = (IF hasIcac THEN Some(TRUE) ELSE None)

(* C11: for a fabric with ICAC bytes stored, a call that got past the RCAC *)
(* and NOC presence checks and the RCAC verification either set icacValid  *)
(* to true or returned {valid: false, icacValid: false, error: "ICAC       *)
(* verification failed: ..."}; it never returns valid: true with icacValid *)
(* unset.                                                                  *)
C11_IcacNeverSkipped ==
    (/\ Returned
     /\ IsSome(StoredBytes(KindIcac))
     /\ ~RcacUnavailable
     /\ ~NocUnavailable
     /\ RcacSelfVerifies)
    => /\ \/ Result.icacValid = Some(TRUE)
          \/ /\ Result.valid = FALSE
             /\ Result.icacValid = Some(FALSE)
             /\ ErrorIs("ICAC verification failed: ")
       /\ ~(Result.valid /\ Result.icacValid = None)

(* C12: every call resolves with a structured result: once started it      *)
(* returns, whatever the certificate library's decode and verify           *)
(* operations do, and in the result valid is false exactly when error is   *)
(* set (to a non-empty reason) and true exactly when error is unset.       *)
C12_StructuredResult ==
    /\ [](Returned =>
             /\ (Result.valid = FALSE) <=> (IsSome(Result.error) /\ Val(Result.error)[1] # "")
             /\ (Result.valid = TRUE) <=> (Result.error = None))
    /\ (vpc # "idle") ~> Returned

(* Witness of C12: the NOC's verify threw after the RCAC and the ICAC      *)
(* verified, and the call returned the failure as a result                 *)
C12_Witness ==
    /\ Returned
    /\ vcalls = <<"rcac.verify", "icac.verify", "noc.verify">>
    /\ Result.valid = FALSE
    /\ ErrorIs("NOC verification failed: ")

(* The last query of instance A, its argument and what it returned         *)
Asked(name) == IsSome(ret) /\ Val(ret)[1] = name
AskedIndex == Val(ret)[2]
Answer == Val(ret)[3]
AskedFabric == getFabric(inst["A"], AskedIndex)

(* What the certificate library makes of an optional stored entry          *)
DecodedEntry(kind, entry) ==
    IF IsSome(entry) THEN CertFromTlv(kind, Val(entry).raw) ELSE None

HasIpk(keys) == \E j \in 1..Len(keys) : Len(keys[j].key) = 16

(* A prerequisite of the projection is missing for fabric f, judged on the *)
(* bytes the fabric stores                                                 *)
PrerequisiteMissing(f) ==
    LET rcac == DecodedEntry(KindRcac, f.rcac)
        noc  == DecodedEntry(KindNoc, f.noc)
        slot == MapGet(f.keys, Some(0))
    IN \/ rcac = None
       \/ noc = None
       \/ CertSubject(Val(noc)).nodeId = None
       \/ CertSubject(Val(noc)).fabricId = None
       \/ CertSubject(Val(rcac)).rcacId = None
       \/ f.metadata = None
       \/ TlvFabricMetadata(Val(f.metadata).raw) = None
       \/ slot = None
       \/ TlvGroupKeySet(Val(slot).raw) = None
       \/ ~HasIpk(Val(TlvGroupKeySet(Val(slot).raw)).keys)

(* C13: getFabricConfig(i) is all-or-nothing.  It returns undefined when   *)
(* the fabric does not exist, the RCAC or NOC is missing or undecodable,   *)
(* the NOC subject lacks nodeId or fabricId, the RCAC subject lacks        *)
(* rcacId, the fabric metadata did not decode, or key-set slot 0 is        *)
(* missing, undecoded or has no 16-byte key; otherwise it returns a record *)
(* with every required field set.                                          *)
C13_AllOrNothing ==
    Asked("getFabricConfig") =>
        IF ~IsSome(AskedFabric) \/ PrerequisiteMissing(Val(AskedFabric))
        THEN Answer = None
        ELSE /\ IsSome(Answer)
             /\ IsSome(Val(Answer).fabricId)
             /\ IsSome(Val(Answer).nodeId)
             /\ IsSome(Val(Answer).rootNodeId)
             /\ Val(Answer).fabricIndex = AskedIndex

ExpectedCert(kind) ==
    IF ~IsSome(AskedFabric) THEN None
    ELSE DecodedEntry(kind, IF kind = KindRcac THEN Val(AskedFabric).rcac
                            ELSE IF kind = KindIcac THEN Val(AskedFabric).icac
                            ELSE Val(AskedFabric).noc)

(* C15: getRcac(i), getIcac(i) and getNoc(i) return undefined when fabric  *)
(* i does not exist, when it has no bytes for that certificate, or when    *)
(* the stored bytes fail to decode; otherwise the decoded certificate of   *)
(* the stored bytes.  None of them throws.                                 *)
C15_GettersNeverThrow ==
    /\ Asked("getRcac") => Answer = ExpectedCert(KindRcac)
    /\ Asked("getIcac") => Answer = ExpectedCert(KindIcac)
    /\ Asked("getNoc") => Answer = ExpectedCert(KindNoc)

(* Witness of C15: getIcac(1) returned undefined for stored ICAC bytes     *)
(* that do not decode                                                      *)
C15_Witness ==
    /\ Asked("getIcac")
    /\ AskedIndex = 1
    /\ IsSome(AskedFabric)
    /\ Val(AskedFabric).icac = Some(decodeEntry(V_invalid))
    /\ Answer = None

(* C16: load() stores the file's repl-config unchanged, an empty object    *)
(* when the file has none, and save() writes a "repl-config" member equal  *)
(* to the stored value if and only if the stored value is non-empty.       *)
C16_ReplConfigPassThrough ==
    /\ ALoaded =>
           inst["A"].replConfig =
               (IF IsSome(Val(disk["orig"]).repl) THEN Val(Val(disk["orig"]).repl) ELSE <<>>)
    /\ ASaved =>
           /\ inst["A"].replConfig # <<>> =>
                  Val(disk["saved"]).repl = Some(inst["A"].replConfig)
           /\ inst["A"].replConfig = <<>> => Val(disk["saved"]).repl = None

(* Witness of C16: a file whose repl-config is an empty object was loaded  *)
(* and saved without the member                                            *)
C16_Witness ==
    /\ ASaved
    /\ Val(disk["orig"]).repl = Some(<<>>)
    /\ Val(disk["saved"]).repl = None

(* The keys of the ignored set                                             *)
IgnoredKeyNames ==
    {<<"g", "/", "f", "s", "/", "c">>, <<"g", "/", "f", "s", "/", "n">>,
     <<"g", "/", "g", "d", "c">>, <<"g", "/", "g", "c", "c">>,
     <<"g", "/", "g", "f", "l">>, <<"g", "/", "i", "c", "d", "f", "l">>}

(* The members of the input file whose keys are not in the ignored set     *)
NotIgnoredMembers ==
    SelectSeq(Val(disk["orig"]).sdk, LAMBDA e : e[1] \notin IgnoredKeyNames)

(* C17: a key of the ignored set is stored with its original base64 string *)
(* in the ignored map only: apart from the ignored map the model is the    *)
(* one the file gives without these members (no fabric, global or session  *)
(* field comes from them, nothing is decoded), and save() writes the key   *)
(* back with the same value.                                               *)
C17_IgnoredFirst ==
    ALoaded =>
        LET rest == LoadModel([Val(disk["orig"]) EXCEPT !.sdk = NotIgnoredMembers])
        IN /\ \A e \in PairSet(OrigObj) :
                  e[1] \in IgnoredKeyNames =>
                      /\ MapGet(inst["A"].ignored, e[1]) = Some(e[2])
                      /\ ~MapHas(inst["A"].generic, e[1])
                      /\ ASaved => e \in PairSet(SavedObj)
           /\ \A k \in KeySet(inst["A"].ignored) : k \in IgnoredKeyNames
           /\ inst["A"].fabrics = rest.fabrics
           /\ inst["A"].globals = rest.globals
           /\ inst["A"].sessions = rest.sessions
           /\ inst["A"].generic = rest.generic

(* Witness of C17: g/gdc was loaded next to a fabric key and saved         *)
C17_Witness ==
    /\ ASaved
    /\ KeySet(OrigObj) = {K_ggdc, K_f1n}
    /\ inst["A"].ignored = <<<<K_ggdc, V_test>>>>
    /\ <<K_ggdc, V_test>> \in PairSet(SavedObj)

(* The places of model m that hold source key k: <<0, name>> for the maps  *)
(* and fields of the instance, <<fabric index, bucket>> for a fabric's     *)
(* buckets                                                                 *)
FabricPlaces(f, k) ==
    LET match == FabricKeyMatch(k)
        mine  == IsSome(match) /\ parseIntHex(Val(match)[1]) = f.index
        sub   == IF mine THEN Val(match)[2] ELSE <<>>
    IN {p \in {"noc", "icac", "rcac", "metadata", "keys", "sessions", "resumptions", "other"} :
           \/ p = "noc" /\ mine /\ sub = <<"n">> /\ IsSome(f.noc)
           \/ p = "icac" /\ mine /\ sub = <<"i">> /\ IsSome(f.icac)
           \/ p = "rcac" /\ mine /\ sub = <<"r">> /\ IsSome(f.rcac)
           \/ p = "metadata" /\ mine /\ sub = <<"m">> /\ IsSome(f.metadata)
           \/ p = "keys" /\ mine /\ startsWith(sub, <<"k", "/">>)
                /\ MapHas(f.keys, parseIntDec(slice(sub, 2)))
           \/ p = "sessions" /\ mine /\ startsWith(sub, <<"s", "/">>)
                /\ MapHas(f.sessions, slice(sub, 2))
           \/ p = "resumptions" /\ startsWith(k, <<"g", "/", "s", "/">>)
                /\ MapHas(f.resumptions, slice(k, 4))
           \/ p = "other" /\ mine /\ MapHas(f.other, sub)}

Places(m, k) ==
    {<<0, p>> : p \in {q \in {"ignored", "generic", "fidx", "lkgt", "sri"} :
                          \/ q = "ignored" /\ MapHas(m.ignored, k)
                          \/ q = "generic" /\ MapHas(m.generic, k)
                          \/ q = "fidx" /\ k = K_gfidx /\ IsSome(m.globals.fabricIndexList)
                          \/ q = "lkgt" /\ k = K_glkgt /\ IsSome(m.globals.lastKnownGoodTime)
                          \/ q = "sri" /\ k = K_gsri /\ IsSome(m.sessions.resumptionIndex)}}
    \cup UNION {{<<f.index, p>> : p \in FabricPlaces(f, k)} : f \in Fabrics(m)}

(* C19: after load() no sdk-config key is filed in more than one place:    *)
(* each source key is held by at most one of the ignored map, the generic  *)
(* map, the global and session fields and the buckets of the fabrics, and  *)
(* by at most one fabric.                                                  *)
C19_OnePlacePerKey ==
    ALoaded => \A k \in KeySet(OrigObj) : Cardinality(Places(inst["A"], k)) <= 1

(* Witness of C19: a key-set key and a resumption entry of fabric 1 were   *)
(* loaded, each held by one bucket of fabric 1                             *)
C19_Witness ==
    /\ ALoaded
    /\ PairSet(OrigObj) = {<<K_f1k0, V_invalid>>, <<K_gsr1, V_sre1>>}
    /\ Places(inst["A"], K_f1k0) = {<<1, "keys">>}
    /\ Places(inst["A"], K_gsr1) = {<<1, "resumptions">>}

(* C18: when the file cannot be read or its content is not parseable JSON, *)
(* load() rejects and the instance's model (fabrics, globals, sessions,    *)
(* ignored, generic, replConfig) is what it was before the call.           *)
C18_FailedLoadKeepsModel ==
    (Asked("load") /\ disk["saved"] \in {NoFile, NotJson}) =>
        /\ Answer = "rejected"
        /\ inst["A"] = (IF ALoaded THEN LoadModel(Val(disk["orig"])) ELSE EmptyModel)

(* Witness of C18: instance A held a fabric, a global and a repl-config    *)
(* when its load of text that is not JSON was rejected                     *)
C18_Witness ==
    /\ Asked("load")
    /\ disk["saved"] = NotJson
    /\ ALoaded
    /\ KeySet(OrigObj) = {K_f1n, K_gfidx}
    /\ inst["A"].fabrics # <<>>
    /\ IsSome(inst["A"].globals.fabricIndexList)
    /\ inst["A"].replConfig # <<>>

Invoked(op) == \E j \in 1..Len(vcalls) : vcalls[j] = op

(* C20: the verify operations are invoked in the order RCAC self-verify,   *)
(* ICAC against the RCAC (only if an ICAC was decoded), NOC against the    *)
(* chain, each only after every earlier one succeeded; in every returned   *)
(* result icacValid or nocValid is set only if rcacValid is true, and      *)
(* nocValid only if icacValid is true or unset.                            *)
C20_ShortCircuit ==
    /\ vcalls \in {<<>>, <<"rcac.verify">>, <<"rcac.verify", "icac.verify">>,
                   <<"rcac.verify", "noc.verify">>,
                   <<"rcac.verify", "icac.verify", "noc.verify">>}
    /\ Invoked("icac.verify") =>
           /\ IsSome(Decoded(KindIcac))
           /\ RcacSelfVerifies
    /\ Invoked("noc.verify") =>
           /\ RcacSelfVerifies
           /\ IsSome(Decoded(KindIcac)) =>
                  /\ Invoked("icac.verify")
                  /\ IcacVerify(Val(Decoded(KindIcac)), Val(Decoded(KindRcac)))
    /\ Returned =>
           /\ (Result.icacValid # None \/ Result.nocValid # None) =>
                  Result.rcacValid = Some(TRUE)
           /\ Result.nocValid # None => Result.icacValid \in {None, Some(TRUE)}

(* Witness of C20: the ICAC's verify failed after the RCAC verified, and   *)
(* the call returned without invoking the NOC's verify                     *)
C20_Witness ==
    /\ Returned
    /\ vcalls = <<"rcac.verify", "icac.verify">>
    /\ ErrorIs("ICAC verification failed: ")
    /\ ~NocUnavailable
    /\ Result.nocValid = None

(* Where load() files a fabric key: <<fabric index, bucket, slot>>, the     *)
(* slot being the key-set index, the node id or the sub-key                *)
RouteOf(k) ==
    LET match == Val(FabricKeyMatch(k))
        sub   == match[2]
        index == parseIntHex(match[1])
    IN IF sub = <<"n">> THEN <<index, "noc", <<>>>>
       ELSE IF sub = <<"i">> THEN <<index, "icac", <<>>>>
       ELSE IF sub = <<"r">> THEN <<index, "rcac", <<>>>>
       ELSE IF sub = <<"m">> THEN <<index, "metadata", <<>>>>
       ELSE IF startsWith(sub, <<"k", "/">>) THEN <<index, "keys", parseIntDec(slice(sub, 2))>>
       ELSE IF startsWith(sub, <<"s", "/">>) THEN <<index, "sessions", slice(sub, 2)>>
       ELSE <<index, "other", sub>>

(* The raw entry and the decoded value fabric f holds at a route           *)
HeldAt(f, route) ==
    IF route[2] = "noc" THEN f.noc
    ELSE IF route[2] = "icac" THEN f.icac
    ELSE IF route[2] = "rcac" THEN f.rcac
    ELSE IF route[2] = "metadata" THEN f.metadata
    ELSE IF route[2] = "keys" THEN MapGet(f.keys, route[3])
    ELSE IF route[2] = "sessions" THEN MapGet(f.sessions, route[3])
    ELSE MapGet(f.other, route[3])

DecodedAt(f, route) ==
    IF route[2] = "metadata" THEN f.metadataDecoded
    ELSE IF route[2] = "keys" THEN MapGet(f.keysDecoded, route[3])
    ELSE IF route[2] = "sessions" THEN MapGet(f.sessionsDecoded, route[3])
    ELSE None

(* The decode load() attempts for a bucket; None for the opaque buckets    *)
AttemptedDecode(bucket, raw) ==
    IF bucket = "metadata" THEN TlvFabricMetadata(raw)
    ELSE IF bucket = "keys" THEN TlvGroupKeySet(raw)
    ELSE IF bucket = "sessions" THEN TlvSessionResumptionDetails(raw)
    ELSE None

(* A fabric that holds nothing but the raw entry, and the decoded value,   *)
(* at the route                                                            *)
HoldsOnly(f, route) ==
    LET entry   == Val(HeldAt(f, route))
        decoded == DecodedAt(f, route)
        bare    == NewFabric(route[1])
    IN f = (IF route[2] = "noc" THEN [bare EXCEPT !.noc = Some(entry)]
            ELSE IF route[2] = "icac" THEN [bare EXCEPT !.icac = Some(entry)]
            ELSE IF route[2] = "rcac" THEN [bare EXCEPT !.rcac = Some(entry)]
            ELSE IF route[2] = "metadata"
                THEN [bare EXCEPT !.metadata = Some(entry), !.metadataDecoded = decoded]
            ELSE IF route[2] = "keys"
                THEN [bare EXCEPT !.keys = <<<<route[3], entry>>>>,
                                  !.keysDecoded = IF IsSome(decoded)
                                                  THEN <<<<route[3], Val(decoded)>>>> ELSE <<>>]
            ELSE IF route[2] = "sessions"
                THEN [bare EXCEPT !.sessions = <<<<route[3], entry>>>>,
                                  !.sessionsDecoded = IF IsSome(decoded)
                                                      THEN <<<<route[3], Val(decoded)>>>> ELSE <<>>]
            ELSE [bare EXCEPT !.other = <<<<route[3], entry>>>>])

(* C21: fabric sub-key routing.  For a key f/<hexIndex>/<subkey>, n sets   *)
(* the fabric's noc, i its icac, r its rcac (nothing decoded), m sets      *)
(* metadata and attempts a FabricMetadata decode, k/<i> sets key-set slot  *)
(* i and attempts a GroupKeySet decode, s/<nodeHex> sets sessions[nodeHex] *)
(* and attempts a SessionResumptionDetails decode; any other sub-key is    *)
(* stored in the fabric's other map under the full sub-key string and is   *)
(* written back by save() as f/<index>/<subkey>.  Stated for every member  *)
(* that no later member of the file routes to the same place.              *)
C21_SubKeyRouting ==
    ALoaded =>
        \A j \in 1..Len(OrigObj) :
            LET key   == OrigObj[j][1]
                value == OrigObj[j][2]
            IN (/\ IsRecognisedFabricKey(key)
                /\ \A h \in (j + 1)..Len(OrigObj) :
                       IsRecognisedFabricKey(OrigObj[h][1]) => RouteOf(OrigObj[h][1]) # RouteOf(key))
               => LET route  == RouteOf(key)
                      fabric == getFabric(inst["A"], route[1])
                      decode == AttemptedDecode(route[2], decodeEntry(value).raw)
                  IN /\ IsSome(fabric)
                     /\ Val(fabric).index = route[1]
                     /\ HeldAt(Val(fabric), route) = Some(decodeEntry(value))
                     /\ IsSome(decode) => DecodedAt(Val(fabric), route) = decode
                     /\ Len(OrigObj) = 1 =>
                            /\ HoldsOnly(Val(fabric), route)
                            /\ DecodedAt(Val(fabric), route) = decode
                            /\ inst["A"] = [EmptyModel EXCEPT !.fabrics = <<<<route[1], Val(fabric)>>>>]
                     /\ (route[2] = "other" /\ ASaved) =>
                            <<FabricPrefix(route[1]) \o <<"/">> \o route[3], value>>
                                \in PairSet(SavedObj)

(* Witness of C21: f/A/x and a decodable f/1/s/70 were loaded and saved;   *)
(* fabric 10 holds x in its other map, written back as f/10/x, and fabric  *)
(* 1 holds the session and its decoded details                             *)
C21_Witness ==
    /\ ASaved
    /\ PairSet(OrigObj) = {<<K_fAx, V_test>>, <<K_f1s70, V_session>>}
    /\ MapGet(Val(getFabric(inst["A"], 10)).other, <<"x">>) = Some(decodeEntry(V_test))
    /\ <<<<"f", "/", "1", "0", "/", "x">>, V_test>> \in PairSet(SavedObj)
    /\ MapHas(Val(getFabric(inst["A"], 1)).sessionsDecoded, <<"7", "0">>)


(* decoded is absent, or raw is present and decoded is the decode of raw   *)
DerivedFrom(decoded, raw, decode) ==
    IsSome(decoded) => (IsSome(raw) /\ decode = decoded)

RawOf(entry) == IF IsSome(entry) THEN Val(entry).raw ELSE <<>>

(* Every decoded entry of a Map has its raw entry, of which it is the decode *)
MapDerived(decodedMap, rawMap, Decode(_)) ==
    \A j \in 1..Len(decodedMap) :
        LET raw == MapGet(rawMap, decodedMap[j][1])
        IN IsSome(raw) /\ Decode(Val(raw).raw) = Some(decodedMap[j][2])

(* C22: decoded values are derivations of the stored raw bytes.  After any *)
(* load(), whenever a decoded field or map entry is present                *)
(* (metadataDecoded, keysDecoded[i], sessionsDecoded[h],                   *)
(* fabricIndexListDecoded, lastKnownGoodTimeDecoded,                       *)
(* resumptionIndexDecoded), the raw entry is present too and the decoded   *)
(* value is the codec's decode of the raw bytes currently stored there.    *)
C22_DecodedDerived ==
    ALoaded =>
        LET m == inst["A"]
        IN /\ DerivedFrom(m.globals.fabricIndexListDecoded, m.globals.fabricIndexList,
                          TlvFabricIndexList(RawOf(m.globals.fabricIndexList)))
           /\ DerivedFrom(m.globals.lastKnownGoodTimeDecoded, m.globals.lastKnownGoodTime,
                          TlvLastKnownGoodTime(RawOf(m.globals.lastKnownGoodTime)))
           /\ DerivedFrom(m.sessions.resumptionIndexDecoded, m.sessions.resumptionIndex,
                          TlvSessionResumptionIndex(RawOf(m.sessions.resumptionIndex)))
           /\ \A f \in Fabrics(m) :
                  /\ DerivedFrom(f.metadataDecoded, f.metadata, TlvFabricMetadata(RawOf(f.metadata)))
                  /\ MapDerived(f.keysDecoded, f.keys, TlvGroupKeySet)
                  /\ MapDerived(f.sessionsDecoded, f.sessions, TlvSessionResumptionDetails)


(* C23: resumption ownership.  After any load(), in every fabric f the     *)
(* maps f.resumptions and f.resumptionsDecoded have the same key set,      *)
(* every decoded entry of f.resumptionsDecoded has fabricIndex = f.index,  *)
(* and each resumption id is held by at most one fabric.                   *)
C23_ResumptionOwnership ==
    ALoaded =>
        /\ \A f \in Fabrics(inst["A"]) :
               /\ KeySet(f.resumptions) = KeySet(f.resumptionsDecoded)
               /\ \A j \in 1..Len(f.resumptionsDecoded) :
                      f.resumptionsDecoded[j][2].fabricIndex = f.index
        /\ \A f, g \in Fabrics(inst["A"]) :
               f.index # g.index =>
                   /\ KeySet(f.resumptions) \cap KeySet(g.resumptions) = {}
                   /\ KeySet(f.resumptionsDecoded) \cap KeySet(g.resumptionsDecoded) = {}

(* Witness of C23: two resumption entries whose payloads name fabrics 10   *)
(* and 1 were loaded from a file without fabric keys; each fabric holds    *)
(* its own id in both maps                                                 *)
C23_Witness ==
    /\ ALoaded
    /\ PairSet(OrigObj) = {<<K_gsr1, V_sre10>>, <<K_gsr2, V_sre1>>}
    /\ KeySet(Val(getFabric(inst["A"], 10)).resumptionsDecoded) = {<<"r", "1">>}
    /\ KeySet(Val(getFabric(inst["A"], 1)).resumptions) = {<<"r", "2">>}
    /\ KeySet(Val(getFabric(inst["A"], 1)).resumptionsDecoded) = {<<"r", "2">>}


(* The file of the load() that settled last                                *)
LastLoaded == Val(disk[log[Len(log)][2]])

(* C24: load() is a deterministic full replacement.  The model after       *)
(* load(F) depends only on the content of F, not on what the instance held *)
(* before: after load(G) and then load(F), and after loading F twice, the  *)
(* model is the one a fresh instance has after load(F); no entry of an     *)
(* earlier load survives.                                                  *)
C24_FullReplacement == log # <<>> => inst["A"] = LoadModel(LastLoaded)

(* Witness of C24: a file with an entry for every bucket and no            *)
(* repl-config was loaded, then a file with a repl-config and no entries   *)
(* was loaded over it, and the instance holds no entry                     *)
C24_Witness ==
    /\ log = <<<<"A", "saved">>, <<"A", "orig">>>>
    /\ Val(disk["saved"]).sdk = ReplacedMembers
    /\ Val(disk["orig"]).sdk = <<>>
    /\ IsSome(Val(disk["orig"]).repl)
    /\ inst["A"] = [EmptyModel EXCEPT !.replConfig = <<<<"test", "value">>>>]


(* Instance A has no fabric of that index                                  *)
NoFabric(index) == ~MapHas(inst["A"].fabrics, index)

(* C25: the set of fabrics changes only inside load().  save(),            *)
(* getFabricIndices(), getFabric(), getRcac/getIcac/getNoc(),              *)
(* getFabricConfig() and verifyCertificateChain() leave the whole model    *)
(* unchanged (every step that is not a settled load() leaves every         *)
(* instance as it was), and called with an index that has no fabric they   *)
(* report absence without creating a fabric.                               *)
C25_OnlyLoadMutates ==
    /\ [][log' = log => inst' = inst]_vars
    /\ [](/\ \A name \in {"getFabric", "getRcac", "getIcac", "getNoc", "getFabricConfig"} :
                 (Asked(name) /\ NoFabric(AskedIndex)) => Answer = None
          /\ (Asked("getFabricIndices") /\ inst["A"].fabrics = <<>>) => Answer = <<>>
          /\ (Returned /\ NoFabric(vctx.fabricIndex)) =>
                 (Result.valid = FALSE /\ ErrorIs("RCAC not found or invalid")))

(* Witness of C25: instance A holds fabric 1 and no fabric 2; getFabric(2) *)
(* answered undefined and fabric 2 still does not exist                    *)
C25_Witness ==
    /\ Asked("getFabric")
    /\ AskedIndex = 2
    /\ ALoaded
    /\ ~NoFabric(1)
    /\ NoFabric(2)
    /\ Answer = None


(* The flat keys of model m in the order: g/fidx, g/lkgt, g/sri; for each  *)
(* fabric n, i, r, m, its k/<i>, its s/<nodeHex>, its g/s/<resumptionId>,  *)
(* its other entries; the ignored keys; the generic keys                   *)
KeyIfSet(field, key) == IF IsSome(field) THEN <<key>> ELSE <<>>

FabricKeyOrder(f) ==
    LET p == <<"f", "/">> \o IntToString(f.index)
    IN KeyIfSet(f.noc, p \o <<"/", "n">>) \o KeyIfSet(f.icac, p \o <<"/", "i">>)
       \o KeyIfSet(f.rcac, p \o <<"/", "r">>) \o KeyIfSet(f.metadata, p \o <<"/", "m">>)
       \o [j \in 1..Len(f.keys) |-> p \o <<"/", "k", "/">> \o NumberToString(f.keys[j][1])]
       \o [j \in 1..Len(f.sessions) |-> p \o <<"/", "s", "/">> \o f.sessions[j][1]]
       \o [j \in 1..Len(f.resumptions) |-> <<"g", "/", "s", "/">> \o f.resumptions[j][1]]
       \o [j \in 1..Len(f.other) |-> p \o <<"/">> \o f.other[j][1]]

RECURSIVE FabricsKeyOrder(_)
FabricsKeyOrder(fabrics) ==
    IF fabrics = <<>> THEN <<>>
    ELSE FabricKeyOrder(Head(fabrics)[2]) \o FabricsKeyOrder(Tail(fabrics))

KeyOrder(m) ==
    KeyIfSet(m.globals.fabricIndexList, K_gfidx)
    \o KeyIfSet(m.globals.lastKnownGoodTime, K_glkgt)
    \o KeyIfSet(m.sessions.resumptionIndex, K_gsri)
    \o FabricsKeyOrder(m.fabrics)
    \o MapKeys(m.ignored)
    \o MapKeys(m.generic)

(* The keys that are canonical array indices, in ascending numeric order,  *)
(* then the other keys in their order                                      *)
IndexKeysFirst(keys) ==
    LET numbers == SortAscending([j \in 1..Len(SelectSeq(keys, IsArrayIndex)) |->
                                     DecValue(SelectSeq(keys, IsArrayIndex)[j])])
    IN [j \in 1..Len(numbers) |-> NatToString(numbers[j])]
       \o SelectSeq(keys, LAMBDA k : ~IsArrayIndex(k))

(* C26 as claimed: the file written by save() lists the flat keys in this  *)
(* order: g/fidx, g/lkgt, g/sri; then for each fabric its n, i, r, m, its  *)
(* k/<i> entries, its s/<nodeHex> entries, its g/s/<resumptionId> entries, *)
(* its other entries; then all ignored keys; then all generic keys.        *)
(* Entries that are absent from the model are not emitted.                 *)
C26_SaveOrder == ASaved => MapKeys(SavedObj) = KeyOrder(inst["A"])

(* C26 amended: the file written by save() lists first the keys that are   *)
(* canonical array indices (decimal integers without leading zero; only    *)
(* generic keys can be), in ascending numeric order, and then every other  *)
(* key in the claimed order; entries absent from the model are not         *)
(* emitted.                                                                *)
C26_SaveOrderIndexKeysFirst ==
    ASaved => MapKeys(SavedObj) = IndexKeysFirst(KeyOrder(inst["A"]))

(* Witness of C26: the generic key 7 was loaded after a fabric key and     *)
(* saved; the file lists it before the fabric key                          *)
C26_Witness ==
    /\ ASaved
    /\ Val(disk["orig"]).sdk = <<<<K_f1n, V_test>>, <<K_7, V_test>>>>
    /\ KeyOrder(inst["A"]) = <<K_f1n, K_7>>
    /\ MapKeys(SavedObj) = <<K_7, K_f1n>>


(* C27: certificates and key material are not exposed through a shared     *)
(* mutable handle.  A caller that modifies a value obtained from           *)
(* getFabric(i) or getFabricConfig(i) does not change the converter's      *)
(* model: the instance holds what it loaded, a later getRcac(i) answers    *)
(* with the certificate of the loaded bytes, and save() writes the         *)
(* originally loaded data.                                                 *)
C27_NoSharedHandle ==
    ALoaded =>
        /\ inst["A"] = LoadModel(Val(disk["orig"]))
        /\ Asked("getRcac") => Answer = getRcac(LoadModel(Val(disk["orig"])), AskedIndex)
        /\ ASaved => SavedObj = SaveSdkConfig(LoadModel(Val(disk["orig"])))


(* The number of entries model m holds                                     *)
OptCount(field) == IF IsSome(field) THEN 1 ELSE 0

FabricEntryCount(f) ==
    OptCount(f.noc) + OptCount(f.icac) + OptCount(f.rcac) + OptCount(f.metadata)
    + Len(f.keys) + Len(f.sessions) + Len(f.resumptions) + Len(f.other)

RECURSIVE FabricsEntryCount(_)
FabricsEntryCount(fabrics) ==
    IF fabrics = <<>> THEN 0
    ELSE FabricEntryCount(Head(fabrics)[2]) + FabricsEntryCount(Tail(fabrics))

EntryCount(m) ==
    OptCount(m.globals.fabricIndexList) + OptCount(m.globals.lastKnownGoodTime)
    + OptCount(m.sessions.resumptionIndex) + FabricsEntryCount(m.fabrics)
    + Len(m.ignored) + Len(m.generic)

(* C28: save() never maps two stored entries onto the same flat key.       *)
(* After any load(), the number of keys of the sdk-config written by       *)
(* save() equals the number of entries the model holds (the set global     *)
(* fields, the resumption index, every fabric's noc, icac, rcac, metadata  *)
(* and the entries of its keys, sessions, resumptions and other maps, the  *)
(* ignored map and the generic map).                                       *)
C28_NoKeyCollision ==
    ASaved =>
        /\ Len(SavedObj) = EntryCount(inst["A"])
        /\ Cardinality(KeySet(SavedObj)) = Len(SavedObj)

(* Witness of C28: the sub-key x of fabric 1 and of fabric 10 was loaded   *)
(* and saved as two keys                                                   *)
C28_Witness ==
    /\ ASaved
    /\ PairSet(OrigObj) = {<<K_f1x, V_test>>, <<K_fAx, V_test>>}
    /\ EntryCount(inst["A"]) = 2
    /\ KeySet(SavedObj) = {K_f1x, <<"f", "/", "1", "0", "/", "x">>}


(* The models of the concurrent scenario's files, and the model of a new   *)
(* instance                                                                *)
FullModels == {EmptyModel, LoadModel(Val(disk["orig"])), LoadModel(Val(disk["saved"]))}

(* The model instance A must hold after the loads that settled             *)
SettledModel(n) == IF n = 0 THEN EmptyModel ELSE LoadModel(Val(disk[log[n][2]]))

(* C29: load()'s clear-and-populate step is atomic with respect to the     *)
(* other asynchronous operations of the instance, and save() builds its    *)
(* complete key map before its first await.  Under any interleaving of     *)
(* concurrent load() and save() calls on one instance, the instance always *)
(* holds the full model of the file whose read settled last (the empty     *)
(* model before any did), never a mixture, and what save() writes is that  *)
(* model as it was when save() was called.                                 *)
C29_AtomicLoadAndSave ==
    /\ inst["A"] = SettledModel(Len(log))
    /\ inst["A"] \in FullModels
    /\ \A o \in Writes : o.file = SaveFile(SettledModel(o.settled))
    /\ disk["out"] # NoFile =>
           \E m \in FullModels :
               /\ Val(disk["out"]).sdk = SaveFile(m).sdk
               /\ Val(disk["out"]).repl = SaveFile(m).repl

(* Witness of C29: load() of the first file was called, load() of the      *)
(* second file was called and settled while the first read was in flight,  *)
(* then save() was called and is in flight too; the instance holds the     *)
(* second file's model                                                     *)
C29_Witness ==
    /\ log = <<<<"A", "saved">>>>
    /\ \E o \in Reads : o.path = "orig" /\ o.settled = 0
    /\ \E o \in Writes : o.settled = 1 /\ o.file.sdk = <<<<K_Example, V_test>>>>
    /\ Val(disk["orig"]).sdk = ReplacedMembers
    /\ inst["A"] = LoadModel(Val(disk["saved"]))
    /\ inst["A"] # LoadModel(Val(disk["orig"]))


(* The result of verifying the chain model m stores for a fabric index     *)
ChainResult(m, index) ==
    LET rcac == getRcac(m, index)
        icac == getIcac(m, index)
        noc  == getNoc(m, index)
        ok1  == [NewResult EXCEPT !.rcacValid = Some(TRUE)]
        ok2  == IF IsSome(icac) THEN [ok1 EXCEPT !.icacValid = Some(TRUE)] ELSE ok1
    IN IF ~IsSome(rcac) THEN [NewResult EXCEPT !.error = Some(<<"RCAC not found or invalid">>)]
       ELSE IF ~IsSome(noc) THEN [NewResult EXCEPT !.error = Some(<<"NOC not found or invalid">>)]
       ELSE IF ~RcacVerify(Val(rcac)) THEN RcacFailed(NewResult)
       ELSE IF IsSome(icac) /\ ~IcacVerify(Val(icac), Val(rcac)) THEN IcacFailed(ok1)
       ELSE IF ~NocVerify(Val(noc), Val(rcac), icac) THEN NocFailed(ok2)
       ELSE [ok2 EXCEPT !.nocValid = Some(TRUE), !.valid = TRUE]

(* The model instance A held when verifyCertificateChain was called        *)
ModelAtCall == LoadModel(Val(disk["orig"]))

(* C30: verifyCertificateChain works on a snapshot.  The RCAC, ICAC and    *)
(* NOC are decoded before the first verify is awaited, so a load() on the  *)
(* same instance that settles while a verification is in progress does not *)
(* change which certificates are verified: while the call is in progress   *)
(* its three certificates are those of the chain stored when it was        *)
(* called, and the result it returns is the result of verifying that       *)
(* chain.                                                                  *)
C30_VerifySnapshot ==
    /\ vpc # "idle" =>
           /\ vctx.rcac = getRcac(ModelAtCall, vctx.fabricIndex)
           /\ vctx.icac = getIcac(ModelAtCall, vctx.fabricIndex)
           /\ vctx.noc = getNoc(ModelAtCall, vctx.fabricIndex)
    /\ Returned => Result = ChainResult(ModelAtCall, vctx.fabricIndex)

(* Witness of C30: a load() settled while the verification was in          *)
(* progress; the call returned valid: true for the chain stored when it    *)
(* was called, and the chain the instance stores now would not verify      *)
C30_Witness ==
    /\ Returned
    /\ log = <<<<"A", "orig">>, <<"A", "saved">>>>
    /\ inst["A"] = LoadModel(Val(disk["saved"]))
    /\ Result.valid
    /\ ~ChainResult(inst["A"], vctx.fabricIndex).valid

=============================================================================
